---- MODULE Spec2Model ----
(***************************************************************************)
(* Gusto MCP server: the per-request pipeline of the Worker               *)
(* (fetch -> createStatelessServer -> tool handler -> GustoClientImpl     *)
(* .request -> formatResponse / formatError).                             *)
(*                                                                         *)
(* JavaScript values are modelled as follows.  A string is a TLA+ string; *)
(* undefined and null are the reserved strings Undefined and Null, which  *)
(* no input set contains as an ordinary value.  A string built by         *)
(* concatenation (a template literal) is the sequence of its pieces.      *)
(* An absent number is NoNumber and the number NaN is NaN.                *)
(***************************************************************************)
EXTENDS Integers, Sequences, FiniteSets, TLC

VARIABLES
  reqs,      \* reqs[r]: the state of inbound request r (one Worker invocation)
  calls,     \* calls[r]: the upstream HTTP calls issued on behalf of request r
  thrown,    \* the value handed to formatError (pure-function specification)
  rendered,  \* the ToolResponse formatError returned for it
  args,      \* the function applied and its arguments (pure-function specifications)
  result     \* what the function returned or threw

vars == <<reqs, calls, thrown, rendered, args, result>>

\* ------------------------------------------------------------------ bounds
NumReqs == 2
MaxHeaderLen == 2

Reqs == 1..NumReqs

\* ------------------------------------------------------------- JS values
Undefined == "<undefined>"
Null == "<null>"
NoNumber == 0 - 1
NaN == 0 - 2
None == [none |-> TRUE]

Truthy(s) == s \notin {Undefined, Null, ""}

\* a || b on strings
OrElse(a, b) == IF Truthy(a) THEN a ELSE b

\* ------------------------------------------------------------ tool table
\* One row per server.tool(...) registration: the client method the handler
\* awaits, how that method consumes the decoded body (kind), the HTTP method
\* of its single request, and how the handler wraps the result.
ToolTable ==
  {
  [name |-> "gusto_test_connection", op |-> "testConnection", kind |-> "conn", method |-> "GET", wrap |-> "inline", entity |-> "result"],
  [name |-> "gusto_get_token_info", op |-> "getTokenInfo", kind |-> "token", method |-> "GET", wrap |-> "json", entity |-> "tokenInfo"],
  [name |-> "gusto_get_company", op |-> "getCompany", kind |-> "object", method |-> "GET", wrap |-> "format", entity |-> "company"],
  [name |-> "gusto_list_locations", op |-> "listLocations", kind |-> "array", method |-> "GET", wrap |-> "format", entity |-> "locations"],
  [name |-> "gusto_create_location", op |-> "createLocation", kind |-> "object", method |-> "POST", wrap |-> "inline", entity |-> "location"],
  [name |-> "gusto_list_departments", op |-> "listDepartments", kind |-> "array", method |-> "GET", wrap |-> "format", entity |-> "departments"],
  [name |-> "gusto_create_department", op |-> "createDepartment", kind |-> "object", method |-> "POST", wrap |-> "inline", entity |-> "department"],
  [name |-> "gusto_list_admins", op |-> "listAdmins", kind |-> "array", method |-> "GET", wrap |-> "format", entity |-> "admins"],
  [name |-> "gusto_list_signatories", op |-> "listSignatories", kind |-> "array", method |-> "GET", wrap |-> "format", entity |-> "signatories"],
  [name |-> "gusto_list_company_bank_accounts", op |-> "listCompanyBankAccounts", kind |-> "array", method |-> "GET", wrap |-> "format", entity |-> "bankAccounts"],
  [name |-> "gusto_list_employees", op |-> "listEmployees", kind |-> "array", method |-> "GET", wrap |-> "format", entity |-> "employees"],
  [name |-> "gusto_get_employee", op |-> "getEmployee", kind |-> "object", method |-> "GET", wrap |-> "format", entity |-> "employee"],
  [name |-> "gusto_create_employee", op |-> "createEmployee", kind |-> "object", method |-> "POST", wrap |-> "inline", entity |-> "employee"],
  [name |-> "gusto_update_employee", op |-> "updateEmployee", kind |-> "object", method |-> "PUT", wrap |-> "inline", entity |-> "employee"],
  [name |-> "gusto_get_employee_onboarding_status", op |-> "getEmployeeOnboardingStatus", kind |-> "object", method |-> "GET", wrap |-> "format", entity |-> "onboardingStatus"],
  [name |-> "gusto_list_jobs", op |-> "listJobs", kind |-> "array", method |-> "GET", wrap |-> "format", entity |-> "jobs"],
  [name |-> "gusto_create_job", op |-> "createJob", kind |-> "object", method |-> "POST", wrap |-> "inline", entity |-> "job"],
  [name |-> "gusto_list_compensations", op |-> "listCompensations", kind |-> "array", method |-> "GET", wrap |-> "format", entity |-> "compensations"],
  [name |-> "gusto_create_compensation", op |-> "createCompensation", kind |-> "object", method |-> "POST", wrap |-> "inline", entity |-> "compensation"],
  [name |-> "gusto_list_home_addresses", op |-> "listHomeAddresses", kind |-> "array", method |-> "GET", wrap |-> "format", entity |-> "homeAddresses"],
  [name |-> "gusto_create_home_address", op |-> "createHomeAddress", kind |-> "object", method |-> "POST", wrap |-> "inline", entity |-> "address"],
  [name |-> "gusto_get_federal_taxes", op |-> "getFederalTaxes", kind |-> "object", method |-> "GET", wrap |-> "format", entity |-> "federalTaxes"],
  [name |-> "gusto_get_state_taxes", op |-> "getStateTaxes", kind |-> "array", method |-> "GET", wrap |-> "format", entity |-> "stateTaxes"],
  [name |-> "gusto_list_employee_bank_accounts", op |-> "listEmployeeBankAccounts", kind |-> "array", method |-> "GET", wrap |-> "format", entity |-> "bankAccounts"],
  [name |-> "gusto_get_employee_payment_method", op |-> "getEmployeePaymentMethod", kind |-> "object", method |-> "GET", wrap |-> "format", entity |-> "paymentMethod"],
  [name |-> "gusto_list_terminations", op |-> "listTerminations", kind |-> "array", method |-> "GET", wrap |-> "format", entity |-> "terminations"],
  [name |-> "gusto_create_termination", op |-> "createTermination", kind |-> "object", method |-> "POST", wrap |-> "inline", entity |-> "termination"],
  [name |-> "gusto_list_garnishments", op |-> "listGarnishments", kind |-> "array", method |-> "GET", wrap |-> "format", entity |-> "garnishments"],
  [name |-> "gusto_create_garnishment", op |-> "createGarnishment", kind |-> "object", method |-> "POST", wrap |-> "inline", entity |-> "garnishment"],
  [name |-> "gusto_list_employee_forms", op |-> "listEmployeeForms", kind |-> "array", method |-> "GET", wrap |-> "format", entity |-> "forms"],
  [name |-> "gusto_list_recurring_reimbursements", op |-> "listRecurringReimbursements", kind |-> "array", method |-> "GET", wrap |-> "format", entity |-> "reimbursements"],
  [name |-> "gusto_create_recurring_reimbursement", op |-> "createRecurringReimbursement", kind |-> "object", method |-> "POST", wrap |-> "inline", entity |-> "reimbursement"],
  [name |-> "gusto_list_contractors", op |-> "listContractors", kind |-> "array", method |-> "GET", wrap |-> "format", entity |-> "contractors"],
  [name |-> "gusto_get_contractor", op |-> "getContractor", kind |-> "object", method |-> "GET", wrap |-> "format", entity |-> "contractor"],
  [name |-> "gusto_create_contractor", op |-> "createContractor", kind |-> "object", method |-> "POST", wrap |-> "inline", entity |-> "contractor"],
  [name |-> "gusto_update_contractor", op |-> "updateContractor", kind |-> "object", method |-> "PUT", wrap |-> "inline", entity |-> "contractor"],
  [name |-> "gusto_delete_contractor", op |-> "deleteContractor", kind |-> "void", method |-> "DELETE", wrap |-> "inline", entity |-> "message"],
  [name |-> "gusto_list_contractor_payments", op |-> "listContractorPayments", kind |-> "array", method |-> "GET", wrap |-> "format", entity |-> "contractorPayments"],
  [name |-> "gusto_create_contractor_payment", op |-> "createContractorPayment", kind |-> "object", method |-> "POST", wrap |-> "inline", entity |-> "payment"],
  [name |-> "gusto_list_contractor_bank_accounts", op |-> "listContractorBankAccounts", kind |-> "array", method |-> "GET", wrap |-> "format", entity |-> "bankAccounts"],
  [name |-> "gusto_list_contractor_forms", op |-> "listContractorForms", kind |-> "array", method |-> "GET", wrap |-> "format", entity |-> "forms"],
  [name |-> "gusto_list_payrolls", op |-> "listPayrolls", kind |-> "array", method |-> "GET", wrap |-> "format", entity |-> "payrolls"],
  [name |-> "gusto_get_payroll", op |-> "getPayroll", kind |-> "object", method |-> "GET", wrap |-> "format", entity |-> "payroll"],
  [name |-> "gusto_calculate_payroll", op |-> "calculatePayroll", kind |-> "object", method |-> "PUT", wrap |-> "inline", entity |-> "payroll"],
  [name |-> "gusto_submit_payroll", op |-> "submitPayroll", kind |-> "object", method |-> "PUT", wrap |-> "inline", entity |-> "payroll"],
  [name |-> "gusto_create_off_cycle_payroll", op |-> "createOffCyclePayroll", kind |-> "object", method |-> "POST", wrap |-> "inline", entity |-> "payroll"],
  [name |-> "gusto_list_pay_schedules", op |-> "listPaySchedules", kind |-> "array", method |-> "GET", wrap |-> "format", entity |-> "paySchedules"],
  [name |-> "gusto_create_pay_schedule", op |-> "createPaySchedule", kind |-> "object", method |-> "POST", wrap |-> "inline", entity |-> "paySchedule"],
  [name |-> "gusto_list_pay_periods", op |-> "getPayPeriods", kind |-> "array", method |-> "GET", wrap |-> "format", entity |-> "payPeriods"],
  [name |-> "gusto_list_earning_types", op |-> "listEarningTypes", kind |-> "object", method |-> "GET", wrap |-> "format", entity |-> "earningTypes"],
  [name |-> "gusto_create_earning_type", op |-> "createEarningType", kind |-> "object", method |-> "POST", wrap |-> "inline", entity |-> "earningType"],
  [name |-> "gusto_list_company_forms", op |-> "listCompanyForms", kind |-> "array", method |-> "GET", wrap |-> "format", entity |-> "forms"],
  [name |-> "gusto_list_notifications", op |-> "listNotifications", kind |-> "array", method |-> "GET", wrap |-> "format", entity |-> "notifications"],
  [name |-> "gusto_list_supported_benefits", op |-> "listSupportedBenefits", kind |-> "array", method |-> "GET", wrap |-> "format", entity |-> "supportedBenefits"],
  [name |-> "gusto_list_company_benefits", op |-> "listCompanyBenefits", kind |-> "array", method |-> "GET", wrap |-> "format", entity |-> "companyBenefits"],
  [name |-> "gusto_create_company_benefit", op |-> "createCompanyBenefit", kind |-> "object", method |-> "POST", wrap |-> "inline", entity |-> "benefit"],
  [name |-> "gusto_list_employee_benefits", op |-> "listEmployeeBenefits", kind |-> "array", method |-> "GET", wrap |-> "format", entity |-> "employeeBenefits"],
  [name |-> "gusto_create_employee_benefit", op |-> "createEmployeeBenefit", kind |-> "object", method |-> "POST", wrap |-> "inline", entity |-> "benefit"],
  [name |-> "gusto_list_time_off_policies", op |-> "listTimeOffPolicies", kind |-> "array", method |-> "GET", wrap |-> "format", entity |-> "timeOffPolicies"],
  [name |-> "gusto_get_time_off_policy", op |-> "getTimeOffPolicy", kind |-> "object", method |-> "GET", wrap |-> "format", entity |-> "timeOffPolicy"],
  [name |-> "gusto_create_time_off_policy", op |-> "createTimeOffPolicy", kind |-> "object", method |-> "POST", wrap |-> "inline", entity |-> "policy"],
  [name |-> "gusto_add_employees_to_time_off_policy", op |-> "addEmployeesToTimeOffPolicy", kind |-> "void", method |-> "PUT", wrap |-> "inline", entity |-> "message"],
  [name |-> "gusto_get_holiday_pay_policy", op |-> "getHolidayPayPolicy", kind |-> "holiday", method |-> "GET", wrap |-> "format", entity |-> "holidayPayPolicy"],
  [name |-> "gusto_list_webhook_subscriptions", op |-> "listWebhookSubscriptions", kind |-> "array", method |-> "GET", wrap |-> "format", entity |-> "webhookSubscriptions"],
  [name |-> "gusto_create_webhook_subscription", op |-> "createWebhookSubscription", kind |-> "object", method |-> "POST", wrap |-> "inline", entity |-> "subscription"],
  [name |-> "gusto_delete_webhook_subscription", op |-> "deleteWebhookSubscription", kind |-> "void", method |-> "DELETE", wrap |-> "inline", entity |-> "message"],
  [name |-> "gusto_list_events", op |-> "listEvents", kind |-> "array", method |-> "GET", wrap |-> "format", entity |-> "events"]
  }

ToolNames == {t.name : t \in ToolTable}
ToolRow(name) == CHOOSE t \in ToolTable : t.name = name

\* ------------------------------------------------- utils/errors (classes)
\* The error classes live in utils/errors.ts.  What the callers in the client
\* and the formatters rely on: RateLimitError and AuthenticationError are
\* CrmApiErrors; a CrmApiError carries message, statusCode and retryable.
MkError(class, kind, message, statusCode, retryable, retryAfterSeconds) ==
  [class |-> class, kind |-> kind, message |-> message, statusCode |-> statusCode,
   retryable |-> retryable, retryAfterSeconds |-> retryAfterSeconds]

RateLimitError(message, retryAfterSeconds) ==
  MkError("RateLimitError", "RateLimit", message, NoNumber, TRUE, retryAfterSeconds)

AuthenticationError(message) ==
  MkError("AuthenticationError", "Authentication", message, NoNumber, FALSE, NoNumber)

CrmApiError(message, statusCode) ==
  MkError("CrmApiError", "ApiError", message, statusCode, FALSE, NoNumber)

\* Errors raised by the runtime itself (fetch rejecting, JSON.parse, a property
\* read on undefined): plain Error instances, not CrmApiErrors.
NativeError(class, message) ==
  MkError(class, "Unknown", message, NoNumber, FALSE, NoNumber)

IsCrmApiError(e) == e.class \in {"CrmApiError", "RateLimitError", "AuthenticationError"}

\* A completed call: either a returned value or a thrown error.
Return(v) == [threw |-> FALSE, value |-> v]
Throw(e) == [threw |-> TRUE, error |-> e]

\* --------------------------------------------------- upstream responses
\* Retry-After header values: strings over Chars, as character sequences.
Chars == {"0", "3", "x"}
Digits == {"0", "3"}

HeaderStrings == UNION {[1..n -> Chars] : n \in 0..MaxHeaderLen}

DigitVal(c) == IF c = "3" THEN 3 ELSE 0

\* A decoded JSON value, as far as the client reads it.  shape "undefined" is
\* the no-content sentinel, "malformed" a body JSON.parse rejects.
Body(shape, message, error, hasErrors, errors, email) ==
  [shape |-> shape, message |-> message, error |-> error,
   hasErrors |-> hasErrors, errors |-> errors, email |-> email]

PlainBody(shape) == Body(shape, Undefined, Undefined, FALSE, <<>>, Undefined)

UndefinedData == PlainBody("undefined")

MessageValues == {Undefined, "", "from message"}
ErrorValues == {Undefined, "", "from error"}
FirstErrorValues == {Undefined, "", "from errors[0]"}

ErrorsArrays == {<<>>} \cup {<<[message |-> m]>> : m \in FirstErrorValues}

ErrorBodies ==
  {PlainBody("malformed"), PlainBody("null")}
  \cup {Body("object", m, e, FALSE, <<>>, Undefined) : m \in MessageValues, e \in ErrorValues}
  \cup {Body("object", m, e, TRUE, a, Undefined) :
          m \in MessageValues, e \in ErrorValues, a \in ErrorsArrays}

DataBodies ==
  {PlainBody("malformed"), PlainBody("null"), PlainBody("array")}
  \cup {Body("object", Undefined, Undefined, FALSE, <<>>, m) : m \in {Undefined, "owner@example"}}

Response(arrived, status, hasRetryAfter, retryAfter, body) ==
  [arrived |-> arrived, status |-> status, hasRetryAfter |-> hasRetryAfter,
   retryAfter |-> retryAfter, body |-> body]

\* fetch() rejected: no response at all.
NetworkFailure == Response(FALSE, 0, FALSE, <<>>, PlainBody("malformed"))

Responses ==
  {NetworkFailure}
  \cup {Response(TRUE, 429, FALSE, <<>>, PlainBody("malformed"))}
  \cup {Response(TRUE, 429, TRUE, h, PlainBody("malformed")) : h \in HeaderStrings}
  \cup {Response(TRUE, s, FALSE, <<>>, b) : s \in {401, 403},
          b \in {PlainBody("malformed"), Body("object", "from message", Undefined, FALSE, <<>>, Undefined)}}
  \cup {Response(TRUE, s, FALSE, <<>>, b) : s \in {404, 500}, b \in ErrorBodies}
  \cup {Response(TRUE, 204, FALSE, <<>>, PlainBody("malformed"))}
  \cup {Response(TRUE, s, FALSE, <<>>, b) : s \in {200, 201}, b \in DataBodies}

\* ------------------------------------------------ GustoClientImpl.request
DefaultRetryAfter == 60

RECURSIVE DigitPrefix(_)
DigitPrefix(s) ==
  IF s = <<>> \/ Head(s) \notin Digits THEN <<>>
  ELSE <<Head(s)>> \o DigitPrefix(Tail(s))

RECURSIVE Accumulate(_, _)
Accumulate(acc, s) ==
  IF s = <<>> THEN acc ELSE Accumulate(acc * 10 + DigitVal(Head(s)), Tail(s))

\* parseInt(s, 10): the value of the leading decimal digits, NaN when none.
ParseInt(s) ==
  LET p == DigitPrefix(s) IN IF p = <<>> THEN NaN ELSE Accumulate(0, p)

GetAuthHeaders(credentials) ==
  IF ~Truthy(credentials.accessToken)
  THEN Throw(AuthenticationError(
         <<"No credentials provided. Include X-Gusto-Access-Token header.">>))
  ELSE Return([Authorization |-> <<"Bearer ", credentials.accessToken>>,
               ContentType |-> "application/json"])

\* The fetch(url, {...options, headers}) call of request(), or the throw of
\* getAuthHeaders that precedes it.
RequestCall(credentials, endpoint, method) ==
  LET h == GetAuthHeaders(credentials) IN
  IF h.threw THEN h
  ELSE Return([endpoint |-> endpoint, method |-> method, headers |-> h.value])

ResponseOk(resp) == resp.status >= 200 /\ resp.status <= 299

ErrorFieldFirst(resp) ==
  LET default == <<"API error: ", ToString(resp.status)>>
      b == resp.body
  IN IF b.shape # "object" THEN default
     ELSE IF Truthy(b.error) THEN <<b.error>>
     ELSE IF Truthy(b.message) THEN <<b.message>>
     ELSE IF b.hasErrors /\ Len(b.errors) > 0 /\ Truthy(b.errors[1].message)
          THEN <<b.errors[1].message>>
     ELSE default

\* The message of the CrmApiError built for a non-ok response.
ErrorMessage(resp) ==
  LET default == <<"API error: ", ToString(resp.status)>>
      b == resp.body
  IN IF b.shape # "object" THEN default
     ELSE IF Truthy(b.message) THEN <<b.message>>
     ELSE IF Truthy(b.error) THEN <<b.error>>
     ELSE IF b.hasErrors /\ Len(b.errors) > 0 /\ Truthy(b.errors[1].message)
          THEN <<b.errors[1].message>>
     ELSE default

\* response.json()
ResponseJson(resp) ==
  IF resp.body.shape = "malformed"
  THEN Throw(NativeError("SyntaxError", <<"Unexpected end of JSON input">>))
  ELSE Return(resp.body)

\* The seconds handed to RateLimitError for a 429.
RetryAfterIgnored(resp) == DefaultRetryAfter

RetryAfterSeconds(resp) ==
  IF resp.hasRetryAfter /\ resp.retryAfter # <<>>
  THEN ParseInt(resp.retryAfter) ELSE DefaultRetryAfter

OnlyUnauthorized(resp) == resp.status = 401

IsAuthFailure(resp) == resp.status = 401 \/ resp.status = 403

NeverNoContent(resp) == FALSE

IsNoContent(resp) == resp.status = 204

RequestResultOkFirst(resp) ==
  IF ~resp.arrived THEN Throw(NativeError("TypeError", <<"fetch failed">>))
  ELSE IF ~ResponseOk(resp)
  THEN Throw(CrmApiError(ErrorMessage(resp), resp.status))
  ELSE IF IsNoContent(resp) THEN Return(UndefinedData)
  ELSE ResponseJson(resp)

\* request() from the moment fetch settles.
RequestResult(resp) ==
  IF ~resp.arrived THEN Throw(NativeError("TypeError", <<"fetch failed">>))
  ELSE IF resp.status = 429
  THEN Throw(RateLimitError(<<"Rate limit exceeded">>, RetryAfterSeconds(resp)))
  ELSE IF IsAuthFailure(resp)
  THEN Throw(AuthenticationError(<<"Authentication failed. Check your API credentials.">>))
  ELSE IF ~ResponseOk(resp)
  THEN Throw(CrmApiError(ErrorMessage(resp), resp.status))
  ELSE IF IsNoContent(resp) THEN Return(UndefinedData)
  ELSE ResponseJson(resp)

\* ------------------------------------------------ client methods
\* A property read on undefined or null.
ReadOfNothing(data) ==
  Throw(NativeError("TypeError", <<"Cannot read properties of ", data.shape>>))

\* getTokenInfo, given the outcome of its request('/token_info').
GetTokenInfo(out) ==
  IF out.threw THEN out
  ELSE IF out.value.shape \in {"undefined", "null"} THEN ReadOfNothing(out.value)
  ELSE Return([t |-> "object", entity |-> "tokenInfo", email |-> out.value.email])

TestConnectionWithoutCatch(out) ==
  LET info == GetTokenInfo(out) IN
  IF info.threw THEN info
  ELSE Return([t |-> "object", connected |-> TRUE,
               message |-> <<"Connected as ", OrElse(info.value.email, "authenticated user")>>])

TestConnection(out) ==
  LET info == GetTokenInfo(out) IN
  IF info.threw
  THEN Return([t |-> "object", connected |-> FALSE, message |-> info.error.message])
  ELSE Return([t |-> "object", connected |-> TRUE,
               message |-> <<"Connected as ", OrElse(info.value.email, "authenticated user")>>])

\* Methods that await the request and return nothing (delete*, add/remove
\* employees).
VoidOp(out) == IF out.threw THEN out ELSE Return([t |-> "undefined"])

\* Methods that read fields of the decoded body (get*, create*, update*, the
\* map* helpers).
ObjectOp(op, out) ==
  IF out.threw THEN out
  ELSE IF out.value.shape \in {"undefined", "null"} THEN ReadOfNothing(out.value)
  ELSE Return([t |-> "object", entity |-> op])

\* Methods that call data.map(...) on the decoded body (list*).
ArrayOp(op, out) ==
  IF out.threw THEN out
  ELSE IF out.value.shape \in {"undefined", "null"} THEN ReadOfNothing(out.value)
  ELSE IF out.value.shape # "array"
  THEN Throw(NativeError("TypeError", <<"data.map is not a function">>))
  ELSE Return([t |-> "array", entity |-> op])

RecoverAnyApiError(out) ==
  LET inner == ObjectOp("getHolidayPayPolicy", out) IN
  IF inner.threw /\ IsCrmApiError(inner.error) THEN Return([t |-> "null"]) ELSE inner

GetHolidayPayPolicy(out) ==
  LET inner == ObjectOp("getHolidayPayPolicy", out) IN
  IF inner.threw
  THEN IF IsCrmApiError(inner.error) /\ inner.error.statusCode = 404
       THEN Return([t |-> "null"])
       ELSE inner
  ELSE inner

ClientOp(row, out) ==
  CASE row.kind = "conn" -> TestConnection(out)
    [] row.kind = "token" -> GetTokenInfo(out)
    [] row.kind = "void" -> VoidOp(out)
    [] row.kind = "object" -> ObjectOp(row.op, out)
    [] row.kind = "array" -> ArrayOp(row.op, out)
    [] row.kind = "holiday" -> GetHolidayPayPolicy(out)

\* ------------------------------------------------ utils/formatters
\* formatErrorForLogging (utils/errors.ts): the details block.
FormatErrorForLogging(error) ==
  [kind |-> error.kind, status |-> error.statusCode, retryable |-> error.retryable]

\* A thrown value that is not an Error instance.
NonError(v) ==
  [class |-> "NonError", kind |-> "Unknown", message |-> <<>>, statusCode |-> NoNumber,
   retryable |-> FALSE, retryAfterSeconds |-> NoNumber, value |-> v]

IsError(e) == e.class # "NonError"

\* String(v)
StringOf(v) ==
  IF v = Undefined THEN "undefined" ELSE IF v = Null THEN "null" ELSE v

FormatErrorUnflagged(error) ==
  [content |-> [error |-> <<"Error: ">> \o error.message,
                details |-> FormatErrorForLogging(error)],
   isError |-> "unset"]

FormatErrorAlwaysRetryable(error) ==
  [content |-> [error |-> <<"Error: ">>
                            \o (IF IsError(error) THEN error.message
                                ELSE <<StringOf(error.value)>>)
                            \o <<" (retryable)">>,
                details |-> FormatErrorForLogging(error)],
   isError |-> "true"]

\* The text of a result is kept as the value JSON.stringify was given.
FormatError(error) ==
  LET errorInfo == FormatErrorForLogging(error)
      message ==
        IF IsCrmApiError(error)
        THEN <<"Error: ">> \o error.message
               \o (IF error.retryable THEN <<" (retryable)">> ELSE <<>>)
        ELSE IF IsError(error) THEN <<"Error: ">> \o error.message
        ELSE <<"Error: ", StringOf(error.value)>>
  IN [content |-> [error |-> message, details |-> errorInfo], isError |-> "true"]

FormatResponse(data, format, entityType) ==
  [content |-> [format |-> format, entityType |-> entityType, data |-> data],
   isError |-> "unset"]

\* ------------------------------------------------ tool handlers
\* The success branch of a handler (the statements of its try block after the
\* awaited client call returned value).
HandlerSuccess(row, format, value) ==
  CASE row.kind = "conn" -> [content |-> value, isError |-> "unset"]
    [] row.kind = "holiday" /\ value.t = "null" ->
         [content |-> [message |-> "No holiday pay policy found"], isError |-> "unset"]
    [] row.wrap = "inline" /\ row.kind = "void" ->
         [content |-> [success |-> TRUE, message |-> row.op], isError |-> "unset"]
    [] row.wrap = "inline" /\ row.kind # "void" /\ row.kind # "conn" ->
         [content |-> [success |-> TRUE, key |-> row.entity, value |-> value],
          isError |-> "unset"]
    [] row.wrap = "json" -> FormatResponse(value, "json", row.entity)
    [] OTHER -> FormatResponse(value, format, row.entity)

ToolHandlerWithoutCatch(row, format, out) ==
  LET res == ClientOp(row, out) IN
  IF res.threw THEN res
  ELSE Return(HandlerSuccess(row, format, res.value))

\* async (args) => { try { ... } catch (error) { return formatError(error) } },
\* given the outcome of the request() the client method awaits.
ToolHandler(row, format, out) ==
  LET res == ClientOp(row, out) IN
  IF res.threw THEN Return(FormatError(res.error))
  ELSE Return(HandlerSuccess(row, format, res.value))

\* ------------------------------------------------ types/env
ParseTenantCredentials(tokenHdr, versionHdr) ==
  [accessToken |-> IF tokenHdr = Null THEN Undefined ELSE tokenHdr,
   apiVersion |-> IF versionHdr = Null THEN Undefined ELSE versionHdr]

\* validateCredentials: TRUE when it returns, FALSE when it throws.
ValidateCredentials(credentials) == Truthy(credentials.accessToken)

\* ------------------------------------------------ Worker fetch
CreateGustoClient(credentials) == [credentials |-> credentials]

CreateStatelessServer(credentials) ==
  [client |-> CreateGustoClient(credentials)]

HttpResponse(status, body) == [status |-> status, body |-> body]

FetchWithoutReturn(path, method, tokenHdr, versionHdr) ==
  IF path = "/health" THEN [server |-> None, http |-> HttpResponse(200, "ok")]
  ELSE IF path = "/mcp" /\ method = "POST"
  THEN [server |-> CreateStatelessServer(ParseTenantCredentials(tokenHdr, versionHdr)),
        http |-> None]
  ELSE IF path = "/sse" THEN [server |-> None, http |-> HttpResponse(501, "SSE")]
  ELSE [server |-> None, http |-> HttpResponse(200, "info")]

FetchServingEveryMethod(path, method, tokenHdr, versionHdr) ==
  IF path = "/health" THEN [server |-> None, http |-> HttpResponse(200, "ok")]
  ELSE IF path = "/mcp"
  THEN LET credentials == ParseTenantCredentials(tokenHdr, versionHdr) IN
       IF ~ValidateCredentials(credentials)
       THEN [server |-> None, http |-> HttpResponse(401, "Unauthorized")]
       ELSE [server |-> CreateStatelessServer(credentials), http |-> None]
  ELSE IF path = "/sse" THEN [server |-> None, http |-> HttpResponse(501, "SSE")]
  ELSE [server |-> None, http |-> HttpResponse(200, "info")]

\* fetch(request) up to its first return or to the hand-over to the MCP
\* handler.
Fetch(path, method, tokenHdr, versionHdr) ==
  IF path = "/health" THEN [server |-> None, http |-> HttpResponse(200, "ok")]
  ELSE IF path = "/mcp" /\ method = "POST"
  THEN LET credentials == ParseTenantCredentials(tokenHdr, versionHdr) IN
       IF ~ValidateCredentials(credentials)
       THEN [server |-> None, http |-> HttpResponse(401, "Unauthorized")]
       ELSE [server |-> CreateStatelessServer(credentials), http |-> None]
  ELSE IF path = "/sse" THEN [server |-> None, http |-> HttpResponse(501, "SSE")]
  ELSE [server |-> None, http |-> HttpResponse(200, "info")]

\* ------------------------------------------------ inbound requests
Paths == {"/health", "/mcp", "/sse", "/"}
Methods == {"GET", "POST"}
TokenHeaders == {Null, "", "tokA", "tokB"}
VersionHeaders == {Null, "2024-04-01"}
Formats == {"json", "markdown"}

\* The formats a tool's schema admits ("json" stands in where it has none).
ToolFormats(row) == IF row.wrap = "format" THEN Formats ELSE {"json"}

IdleReq ==
  [pc |-> "idle", path |-> Null, method |-> Null, tokenHdr |-> Null, versionHdr |-> Null,
   server |-> None, http |-> None, tool |-> None, resp |-> None,
   reqOut |-> None, opOut |-> None, handlerOut |-> None]

SharedCredentials(r) ==
  LET live == {q \in Reqs : reqs[q].server # None}
      first == CHOOSE q \in live : \A p \in live : q <= p
  IN reqs[first].server.client.credentials

\* this.credentials of the client the handlers of request r were registered
\* with.
ClientCredentials(r) == reqs[r].server.client.credentials

\* The Worker receives request r and runs fetch up to its first return or to
\* the hand-over to the MCP handler.
ReceiveReq(r, path, method, tokenHdr, versionHdr) ==
  /\ reqs[r].pc = "idle"
  /\ LET o == Fetch(path, method, tokenHdr, versionHdr) IN
     reqs' = [reqs EXCEPT ![r] =
                [IdleReq EXCEPT !.pc = IF o.http = None THEN "serving" ELSE "responded",
                                !.path = path, !.method = method,
                                !.tokenHdr = tokenHdr, !.versionHdr = versionHdr,
                                !.server = o.server, !.http = o.http]]
  /\ UNCHANGED <<calls, thrown, rendered, args, result>>

\* The MCP handler answers a message that invokes no tool (initialize,
\* tools/list, ...).
OtherMessageReq(r) ==
  /\ reqs[r].pc = "serving"
  /\ reqs' = [reqs EXCEPT ![r].pc = "responded", ![r].http = HttpResponse(200, "mcp")]
  /\ UNCHANGED <<calls, thrown, rendered, args, result>>

\* The MCP handler invokes a tool: the handler runs up to the fetch its client
\* method awaits (or to the end, when getAuthHeaders throws).
InvokeToolReq(r, name, format) ==
  /\ reqs[r].pc = "serving"
  /\ LET row == ToolRow(name)
         call == RequestCall(ClientCredentials(r), row.op, row.method)
     IN IF call.threw
        THEN /\ reqs' = [reqs EXCEPT ![r].pc = "responded",
                                     ![r].tool = [name |-> name, format |-> format],
                                     ![r].reqOut = call,
                                     ![r].opOut = ClientOp(row, call),
                                     ![r].handlerOut = ToolHandler(row, format, call),
                                     ![r].http = HttpResponse(200, "mcp")]
             /\ UNCHANGED calls
        ELSE /\ reqs' = [reqs EXCEPT ![r].pc = "awaiting",
                                     ![r].tool = [name |-> name, format |-> format]]
             /\ calls' = [calls EXCEPT ![r] = Append(@, call.value)]
  /\ UNCHANGED <<thrown, rendered, args, result>>

UpstreamRespondsRetrying(r, resp) ==
  /\ reqs[r].pc = "awaiting"
  /\ LET row == ToolRow(reqs[r].tool.name)
         out == RequestResult(resp)
     IN IF resp.arrived /\ resp.status \in {429, 500} /\ Len(calls[r]) < 2
        THEN /\ calls' = [calls EXCEPT ![r] = Append(@, @[1])]
             /\ UNCHANGED reqs
        ELSE /\ reqs' = [reqs EXCEPT ![r].pc = "responded",
                                     ![r].resp = resp,
                                     ![r].reqOut = out,
                                     ![r].opOut = ClientOp(row, out),
                                     ![r].handlerOut = ToolHandler(row, reqs[r].tool.format, out),
                                     ![r].http = HttpResponse(200, "mcp")]
             /\ UNCHANGED calls
  /\ UNCHANGED <<thrown, rendered, args, result>>

\* The upstream call of request r settles with resp; the handler runs to its
\* return.
UpstreamRespondsReq(r, resp) ==
  /\ reqs[r].pc = "awaiting"
  /\ LET row == ToolRow(reqs[r].tool.name)
         out == RequestResult(resp)
     IN reqs' = [reqs EXCEPT ![r].pc = "responded",
                             ![r].resp = resp,
                             ![r].reqOut = out,
                             ![r].opOut = ClientOp(row, out),
                             ![r].handlerOut = ToolHandler(row, reqs[r].tool.format, out),
                             ![r].http = HttpResponse(200, "mcp")]
  /\ UNCHANGED <<calls, thrown, rendered, args, result>>

\* The response is sent; server, client and results of the request are
\* dropped with it.
DeliverReq(r) ==
  /\ reqs[r].pc = "responded"
  /\ reqs' = [reqs EXCEPT ![r] = IdleReq]
  /\ calls' = [calls EXCEPT ![r] = <<>>]
  /\ UNCHANGED <<thrown, rendered, args, result>>

InitReqs ==
  /\ reqs = [r \in Reqs |-> IdleReq]
  /\ calls = [r \in Reqs |-> <<>>]

\* ---------------------------------------- Spec: one request at a time,
\* every input.
Quiet(r) == \A q \in Reqs \ {r} : reqs[q].pc = "idle"

Receive ==
  \E r \in Reqs, path \in Paths, method \in Methods,
     tokenHdr \in TokenHeaders, versionHdr \in VersionHeaders :
    Quiet(r) /\ ReceiveReq(r, path, method, tokenHdr, versionHdr)

OtherMessage == \E r \in Reqs : OtherMessageReq(r)

InvokeTool ==
  \E r \in Reqs, row \in ToolTable :
    \E format \in ToolFormats(row) : InvokeToolReq(r, row.name, format)

UpstreamResponds == \E r \in Reqs, resp \in Responses : UpstreamRespondsReq(r, resp)

Deliver == \E r \in Reqs : DeliverReq(r)

Init == InitReqs /\ thrown = None /\ rendered = None /\ args = None /\ result = None

Next == Receive \/ OtherMessage \/ InvokeTool \/ UpstreamResponds \/ Deliver

Spec == Init /\ [][Next]_vars

\* ---------------------------------------- SpecConc: requests of different
\* tenants interleave; upstream answers each call for the tenant whose
\* bearer token the call carries.
ConcTokens == {"tokA", "tokB"}
ConcTools == {"gusto_test_connection", "gusto_get_token_info"}

TenantOf(token) == IF token = "tokA" THEN "owner@tenantA" ELSE "owner@tenantB"

\* What the upstream API returns for GET /token_info under a call's
\* Authorization header.
UpstreamAnswer(call) ==
  Response(TRUE, 200, FALSE, <<>>,
           Body("object", Undefined, Undefined, FALSE, <<>>,
                TenantOf(call.headers.Authorization[2])))

ReceiveConc ==
  \E r \in Reqs, tokenHdr \in ConcTokens : ReceiveReq(r, "/mcp", "POST", tokenHdr, Null)

InvokeToolConc == \E r \in Reqs, name \in ConcTools : InvokeToolReq(r, name, "json")

UpstreamAnswersConc ==
  \E r \in Reqs :
    /\ reqs[r].pc = "awaiting"
    /\ UpstreamRespondsReq(r, UpstreamAnswer(calls[r][Len(calls[r])]))

UpstreamRejectsConc ==
  \E r \in Reqs :
    UpstreamRespondsReq(r, Response(TRUE, 429, FALSE, <<>>, PlainBody("malformed")))

NextConc ==
  ReceiveConc \/ InvokeToolConc \/ UpstreamAnswersConc \/ UpstreamRejectsConc \/ Deliver

SpecConc == Init /\ [][NextConc]_vars

\* ======================================================================
\* Properties
\* ======================================================================
Responded(r) == reqs[r].pc = "responded"

\* Request r has run a tool handler to its end against an upstream response.
Answered(r) == Responded(r) /\ reqs[r].tool # None /\ reqs[r].resp # None

RowOf(r) == ToolRow(reqs[r].tool.name)

\* C1: a POST /mcp whose X-Gusto-Access-Token is absent or empty is answered
\* with HTTP 401 Unauthorized by fetch itself: no server or client is built,
\* no tool handler runs (so no tool error result exists), and no upstream
\* call is made for it.
C1_MissingTokenRejected ==
  \A r \in Reqs :
    (reqs[r].pc # "idle" /\ reqs[r].path = "/mcp" /\ reqs[r].method = "POST"
       /\ reqs[r].tokenHdr \in {Null, ""})
    => /\ reqs[r].pc = "responded"
       /\ reqs[r].http = HttpResponse(401, "Unauthorized")
       /\ reqs[r].server = None
       /\ reqs[r].tool = None
       /\ reqs[r].handlerOut = None
       /\ Len(calls[r]) = 0

C1_Witness ==
  \E r \in Reqs :
    /\ reqs[r].path = "/mcp" /\ reqs[r].method = "POST" /\ reqs[r].tokenHdr = ""
    /\ reqs[r].http = HttpResponse(401, "Unauthorized")

\* The tenant whose data the result of an answered request shows.
ResultTenant(r) ==
  LET c == reqs[r].handlerOut.value.content IN
  IF reqs[r].tool.name = "gusto_get_token_info" THEN c.data.email ELSE c.message[2]

C2_OwnCredentials ==
  \A r \in Reqs :
    /\ \A i \in 1..Len(calls[r]) :
         calls[r][i].headers.Authorization = <<"Bearer ", reqs[r].tokenHdr>>
    /\ reqs[r].server # None
         => reqs[r].server.client.credentials.accessToken = reqs[r].tokenHdr
    /\ (Answered(r) /\ reqs[r].resp.status = 200)
         => ResultTenant(r) = TenantOf(reqs[r].tokenHdr)

\* A step changes the state and the calls of at most one request.
C2_Frame ==
  \A r, q \in Reqs :
    (r # q /\ (reqs'[r] # reqs[r] \/ calls'[r] # calls[r]))
      => (reqs'[q] = reqs[q] /\ calls'[q] = calls[q])

\* C2: in every interleaving of requests of different tenants, each upstream
\* call carries "Bearer <token>" with the token of the inbound request it was
\* made for, each request's client holds that request's own credentials, the
\* result of a request shows the data of its own tenant only, and a step taken
\* for one request leaves the state of every other request untouched.
C2_TenantIsolation == [](C2_OwnCredentials) /\ [][C2_Frame]_vars

C2_Witness ==
  \E r, q \in Reqs :
    /\ r # q /\ reqs[r].tokenHdr = "tokA" /\ reqs[q].tokenHdr = "tokB"
    /\ Answered(r) /\ reqs[r].resp.status = 200
    /\ ResultTenant(r) = "owner@tenantA"
    /\ Answered(q) /\ reqs[q].resp.status = 200
    /\ ResultTenant(q) = "owner@tenantB"

\* The value of a non-empty string of decimal digits.
RECURSIVE DecimalValue(_)
DecimalValue(s) ==
  IF Len(s) = 0 THEN 0
  ELSE 10 * DecimalValue(SubSeq(s, 1, Len(s) - 1)) + DigitVal(s[Len(s)])

AllDigits(s) == Len(s) > 0 /\ \A i \in 1..Len(s) : s[i] \in Digits

\* C3: on an upstream 429, request() throws a RateLimit error that is
\* retryable and whose retryAfterSeconds is the integer the Retry-After
\* header spells, or 60 when the response has no such header.
C3_RateLimit ==
  \A r \in Reqs :
    (Answered(r) /\ reqs[r].resp.arrived /\ reqs[r].resp.status = 429)
    => /\ reqs[r].reqOut.threw
       /\ reqs[r].reqOut.error.kind = "RateLimit"
       /\ reqs[r].reqOut.error.retryable
       /\ ~reqs[r].resp.hasRetryAfter => reqs[r].reqOut.error.retryAfterSeconds = 60
       /\ (reqs[r].resp.hasRetryAfter /\ AllDigits(reqs[r].resp.retryAfter))
            => reqs[r].reqOut.error.retryAfterSeconds = DecimalValue(reqs[r].resp.retryAfter)

C3_Witness ==
  \E r \in Reqs :
    /\ Answered(r) /\ reqs[r].resp.status = 429
    /\ reqs[r].resp.hasRetryAfter /\ reqs[r].resp.retryAfter = <<"3", "0">>
    /\ reqs[r].reqOut.error.retryAfterSeconds = 30

\* C4: on an upstream 401 or 403, request() throws an Authentication error
\* that is not retryable, whatever the tool, endpoint and HTTP method.
C4_Authentication ==
  \A r \in Reqs :
    (Answered(r) /\ reqs[r].resp.arrived /\ reqs[r].resp.status \in {401, 403})
    => /\ reqs[r].reqOut.threw
       /\ reqs[r].reqOut.error.kind = "Authentication"
       /\ ~reqs[r].reqOut.error.retryable

C4_Witness ==
  \E r \in Reqs :
    /\ Answered(r) /\ reqs[r].resp.status = 403 /\ RowOf(r).method = "DELETE"
    /\ reqs[r].reqOut.error.kind = "Authentication"

\* The message the priority order of C5 picks from a response: a field counts
\* when it holds a non-empty string.
HasMessage(b) == b.shape = "object" /\ Truthy(b.message)
HasError(b) == b.shape = "object" /\ Truthy(b.error)
HasFirstError(b) ==
  b.shape = "object" /\ b.hasErrors /\ Len(b.errors) >= 1 /\ Truthy(b.errors[1].message)

\* C5: on any other non-2xx status, request() throws an ApiError that is not
\* retryable and keeps the status code; its message is the body's message
\* field, else its error field, else errors[0].message, else
\* "API error: <status>" (body not JSON, or none of the fields). 
C5_ApiError ==
  \A r \in Reqs :
    (Answered(r) /\ reqs[r].resp.arrived /\ ~ResponseOk(reqs[r].resp)
       /\ reqs[r].resp.status \notin {429, 401, 403})
    => LET b == reqs[r].resp.body
           e == reqs[r].reqOut.error
       IN /\ reqs[r].reqOut.threw
          /\ e.kind = "ApiError"
          /\ ~e.retryable
          /\ e.statusCode = reqs[r].resp.status
          /\ HasMessage(b) => e.message = <<b.message>>
          /\ (~HasMessage(b) /\ HasError(b)) => e.message = <<b.error>>
          /\ (~HasMessage(b) /\ ~HasError(b) /\ HasFirstError(b))
               => e.message = <<b.errors[1].message>>
          /\ (~HasMessage(b) /\ ~HasError(b) /\ ~HasFirstError(b))
               => e.message = <<"API error: ", ToString(reqs[r].resp.status)>>

C5_Witness ==
  \E r \in Reqs :
    /\ Answered(r) /\ reqs[r].resp.status = 500
    /\ reqs[r].resp.body.message = "from message"
    /\ reqs[r].resp.body.error = "from error"
    /\ HasFirstError(reqs[r].resp.body)
    /\ reqs[r].reqOut.error.message = <<"from message">>

\* C6: on an upstream 204, request() returns the no-content sentinel without
\* decoding the (empty, undecodable) body, and the delete / add-member
\* operations complete with a success result.
C6_NoContent ==
  \A r \in Reqs :
    (Answered(r) /\ reqs[r].resp.arrived /\ reqs[r].resp.status = 204)
    => /\ reqs[r].reqOut = Return(UndefinedData)
       /\ RowOf(r).kind = "void"
            => /\ ~reqs[r].opOut.threw
               /\ reqs[r].handlerOut.value.isError = "unset"
               /\ reqs[r].handlerOut.value.content.success

C6_Witness ==
  \E r \in Reqs :
    /\ Answered(r) /\ reqs[r].resp.status = 204
    /\ reqs[r].resp.body.shape = "malformed"
    /\ reqs[r].tool.name = "gusto_add_employees_to_time_off_policy"
    /\ reqs[r].handlerOut.value.isError = "unset"

IsHoliday(r) == reqs[r].tool.name = "gusto_get_holiday_pay_policy"

Handled(r) == Responded(r) /\ reqs[r].tool # None

IsErrorPayload(res) == DOMAIN res.content = {"error", "details"}

\* C8: whatever the tool and whatever the outcome of its client call (a value,
\* a RateLimit, Authentication or ApiError, a failed fetch, an undecodable
\* body, a read of a missing body), the handler returns a ToolResponse: no
\* exception leaves it, and a thrown error comes back as formatError(error).
C8_NoEscape ==
  \A r \in Reqs :
    Handled(r)
    => /\ ~reqs[r].handlerOut.threw
       /\ DOMAIN reqs[r].handlerOut.value = {"content", "isError"}
       /\ reqs[r].opOut.threw
            => /\ reqs[r].handlerOut.value = FormatError(reqs[r].opOut.error)
               /\ reqs[r].handlerOut.value.isError = "true"

C8_Witness ==
  \E r \in Reqs :
    /\ Answered(r) /\ reqs[r].tool.name = "gusto_calculate_payroll"
    /\ reqs[r].resp.status = 200 /\ reqs[r].resp.body.shape = "malformed"
    /\ reqs[r].opOut.threw /\ reqs[r].opOut.error.class = "SyntaxError"
    /\ ~reqs[r].handlerOut.threw
    /\ reqs[r].handlerOut.value.isError = "true"

UpstreamFailed(resp) == ~resp.arrived \/ ~ResponseOk(resp)

\* C9 as stated: a result is error-flagged exactly when the upstream operation
\* failed.
C9_FlaggedIffUpstreamFailed ==
  \A r \in Reqs :
    Answered(r)
    => (reqs[r].handlerOut.value.isError = "true" <=> UpstreamFailed(reqs[r].resp))

\* C9 (amended): every tool invocation returns exactly one shape, a success
\* payload with isError unset or an error payload with isError true, never
\* both; the result is error-flagged exactly when the client method the
\* handler awaits throws.
C9_OneShape ==
  \A r \in Reqs :
    Handled(r)
    => LET res == reqs[r].handlerOut.value IN
       /\ res.isError \in {"unset", "true"}
       /\ res.isError = "true" <=> IsErrorPayload(res)
       /\ res.isError = "true" <=> reqs[r].opOut.threw

C9_Witness ==
  \E r \in Reqs :
    /\ Answered(r) /\ reqs[r].tool.name = "gusto_test_connection"
    /\ reqs[r].resp.status = 401
    /\ ~reqs[r].opOut.threw
    /\ reqs[r].handlerOut.value.isError = "unset"
    /\ ~reqs[r].handlerOut.value.content.connected

\* ---------------------------------------- SpecFmt: formatError applied to
\* one thrown value.
ThrownMessages ==
  {<<"">>, <<"Rate limit exceeded">>, <<"API error: ", "500">>,
   <<"Authentication failed. Check your API credentials.">>}

ThrownValues ==
  {RateLimitError(m, s) : m \in ThrownMessages, s \in {DefaultRetryAfter, 0, 30, NaN}}
  \cup {AuthenticationError(m) : m \in ThrownMessages}
  \cup {CrmApiError(m, s) : m \in ThrownMessages, s \in {404, 409, 422, 500}}
  \cup {[CrmApiError(m, 503) EXCEPT !.retryable = TRUE] : m \in ThrownMessages}
  \cup {RequestResult(resp).error : resp \in {x \in Responses : RequestResult(x).threw}}
  \cup {NativeError(c, m) : c \in {"Error", "TypeError", "SyntaxError"}, m \in ThrownMessages}
  \cup {NonError(v) : v \in {Undefined, Null, "", "boom"}}

InitFmt ==
  InitReqs /\ thrown \in ThrownValues /\ rendered = None /\ args = None /\ result = None

FormatThrown ==
  /\ rendered = None
  /\ rendered' = FormatError(thrown)
  /\ UNCHANGED <<reqs, calls, thrown, args, result>>

NextFmt == FormatThrown

SpecFmt == InitFmt /\ [][NextFmt]_vars

\* The text after "Error: " that formatError renders for a thrown value.
ThrownText(e) == IF IsError(e) THEN e.message ELSE <<StringOf(e.value)>>

RetryableClassified(e) == IsCrmApiError(e) /\ e.retryable

\* C10: for a classified error, a plain Error and a non-Error value alike,
\* formatError returns isError true and the message "Error: <message>",
\* followed by " (retryable)" exactly when the value is a classified error
\* that is retryable (so for every RateLimit error), next to a details block.
C10_FormatError ==
  rendered # None
  => LET m == rendered.content.error IN
     /\ rendered.isError = "true"
     /\ DOMAIN rendered.content = {"error", "details"}
     /\ Head(m) = "Error: "
     /\ RetryableClassified(thrown)
          => /\ m[Len(m)] = " (retryable)"
             /\ SubSeq(m, 2, Len(m) - 1) = ThrownText(thrown)
     /\ ~RetryableClassified(thrown) => Tail(m) = ThrownText(thrown)
     /\ thrown.kind = "RateLimit" => m[Len(m)] = " (retryable)"

C10_Witness ==
  /\ rendered # None
  /\ thrown = RateLimitError(<<"Rate limit exceeded">>, 30)
  /\ rendered.content.error = <<"Error: ", "Rate limit exceeded", " (retryable)">>

\* ======================================================================
\* Structured JavaScript values (entity mapping, pagination)
\* ======================================================================
\* A value carries its type in t: undefined, null, a string, a boolean, a
\* number, an object (v: its own properties, a function on property names)
\* or an array (v: the sequence of its elements).
JsUndefined == [t |-> "undefined"]
JsNull == [t |-> "null"]
JsString(s) == [t |-> "string", v |-> s]
JsBool(b) == [t |-> "boolean", v |-> b]
JsNumber(n) == [t |-> "number", v |-> n]
JsObject(f) == [t |-> "object", v |-> f]
JsArray(s) == [t |-> "array", v |-> s]

EmptyObject == JsObject([k \in {} |-> JsUndefined])

\* Truthiness: undefined, null, "", false, 0 and NaN are falsy.
JsTruthy(x) ==
  CASE x.t \in {"undefined", "null"} -> FALSE
    [] x.t = "string" -> x.v # ""
    [] x.t = "boolean" -> x.v
    [] x.t = "number" -> x.v \notin {0, NaN}
    [] OTHER -> TRUE

\* o.k for a value o that is neither undefined nor null: an own property of
\* an object, undefined otherwise.
Get(o, k) == IF o.t = "object" /\ k \in DOMAIN o.v THEN o.v[k] ELSE JsUndefined

WrittenKeysWithUndefined(o) == DOMAIN o.v

\* The properties of an object that JSON.stringify writes: those whose value
\* is not undefined.
WrittenKeys(o) == {k \in DOMAIN o.v : o.v[k] # JsUndefined}

\* JSON.parse(JSON.stringify(x)): properties holding undefined are left out,
\* an undefined array element is written as null.
RECURSIVE JsonStringify(_)
JsonStringify(x) ==
  CASE x.t = "object" -> JsObject([k \in WrittenKeys(x) |-> JsonStringify(x.v[k])])
    [] x.t = "array" ->
         JsArray([i \in 1..Len(x.v) |->
                    IF x.v[i] = JsUndefined THEN JsNull ELSE JsonStringify(x.v[i])])
    [] OTHER -> x

TypeErrorOf(what) == NativeError("TypeError", <<"Cannot read properties of ", what>>)

\* ======================================================================
\* Entity mapping (GustoClientImpl map helpers and request bodies)
\* ======================================================================
\* An object literal of the client is the sequence of its properties, each
\* <<target, source, how, sub>>:
\*   copy   target: x.source
\*   guard  target: x.source ? { sub } : undefined
\*   map    target: x.source?.map((y) => ({ sub }))
\* The map helpers read wire names and write domain names; the request
\* bodies read domain names and write wire names.

\* mapLocation: the object literal it returns (index.ts 688-701)
mapLocation ==
  << <<"uuid", "uuid", "copy", <<>>>>,
     <<"companyUuid", "company_uuid", "copy", <<>>>>,
     <<"phoneNumber", "phone_number", "copy", <<>>>>,
     <<"street1", "street_1", "copy", <<>>>>,
     <<"street2", "street_2", "copy", <<>>>>,
     <<"city", "city", "copy", <<>>>>,
     <<"state", "state", "copy", <<>>>>,
     <<"zip", "zip", "copy", <<>>>>,
     <<"country", "country", "copy", <<>>>>,
     <<"active", "active", "copy", <<>>>>,
     <<"mailingAddress", "mailing_address", "copy", <<>>>>,
     <<"filingAddress", "filing_address", "copy", <<>>>> >>

\* mapCompany: the object literal it returns (index.ts 614-634)
mapCompany ==
  << <<"uuid", "uuid", "copy", <<>>>>,
     <<"name", "name", "copy", <<>>>>,
     <<"tradeName", "trade_name", "copy", <<>>>>,
     <<"ein", "ein", "copy", <<>>>>,
     <<"entityType", "entity_type", "copy", <<>>>>,
     <<"companyStatus", "company_status", "copy", <<>>>>,
     <<"tier", "tier", "copy", <<>>>>,
     <<"isPartnerManaged", "is_partner_managed", "copy", <<>>>>,
     <<"primarySignatory", "primary_signatory", "guard",
       << <<"firstName", "first_name", "copy", <<>>>>,
          <<"lastName", "last_name", "copy", <<>>>>,
          <<"email", "email", "copy", <<>>>> >>>>,
     <<"primaryPayrollAdmin", "primary_payroll_admin", "guard",
       << <<"firstName", "first_name", "copy", <<>>>>,
          <<"lastName", "last_name", "copy", <<>>>>,
          <<"email", "email", "copy", <<>>>> >>>>,
     <<"locations", "locations", "map", mapLocation>> >>

\* mapCompensation: the object literal it returns (index.ts 1069-1078)
mapCompensation ==
  << <<"uuid", "uuid", "copy", <<>>>>,
     <<"jobUuid", "job_uuid", "copy", <<>>>>,
     <<"rate", "rate", "copy", <<>>>>,
     <<"paymentUnit", "payment_unit", "copy", <<>>>>,
     <<"flsaStatus", "flsa_status", "copy", <<>>>>,
     <<"effectiveDate", "effective_date", "copy", <<>>>>,
     <<"adjustForMinimumWage", "adjust_for_minimum_wage", "copy", <<>>>>,
     <<"minimumWages", "minimum_wages", "copy", <<>>>> >>

\* mapJob: the object literal it returns (index.ts 1012-1023)
mapJob ==
  << <<"uuid", "uuid", "copy", <<>>>>,
     <<"employeeUuid", "employee_uuid", "copy", <<>>>>,
     <<"locationUuid", "location_uuid", "copy", <<>>>>,
     <<"title", "title", "copy", <<>>>>,
     <<"primary", "primary", "copy", <<>>>>,
     <<"rate", "rate", "copy", <<>>>>,
     <<"paymentUnit", "payment_unit", "copy", <<>>>>,
     <<"currentCompensationUuid", "current_compensation_uuid", "copy", <<>>>>,
     <<"hireDate", "hire_date", "copy", <<>>>>,
     <<"compensations", "compensations", "map", mapCompensation>> >>

\* mapGarnishment: the object literal it returns (index.ts 1419-1431)
mapGarnishment ==
  << <<"uuid", "uuid", "copy", <<>>>>,
     <<"employeeUuid", "employee_uuid", "copy", <<>>>>,
     <<"active", "active", "copy", <<>>>>,
     <<"amount", "amount", "copy", <<>>>>,
     <<"description", "description", "copy", <<>>>>,
     <<"courtOrdered", "court_ordered", "copy", <<>>>>,
     <<"times", "times", "copy", <<>>>>,
     <<"recurring", "recurring", "copy", <<>>>>,
     <<"annualMaximum", "annual_maximum", "copy", <<>>>>,
     <<"payPeriodMaximum", "pay_period_maximum", "copy", <<>>>>,
     <<"deductAsPercentage", "deduct_as_percentage", "copy", <<>>>> >>

\* mapEmployee: the object literal it returns (index.ts 935-966)
mapEmployee ==
  << <<"uuid", "uuid", "copy", <<>>>>,
     <<"companyUuid", "company_uuid", "copy", <<>>>>,
     <<"firstName", "first_name", "copy", <<>>>>,
     <<"middleName", "middle_name", "copy", <<>>>>,
     <<"lastName", "last_name", "copy", <<>>>>,
     <<"email", "email", "copy", <<>>>>,
     <<"dateOfBirth", "date_of_birth", "copy", <<>>>>,
     <<"ssn", "ssn", "copy", <<>>>>,
     <<"phone", "phone", "copy", <<>>>>,
     <<"preferredFirstName", "preferred_first_name", "copy", <<>>>>,
     <<"twoPercentShareholder", "two_percent_shareholder", "copy", <<>>>>,
     <<"onboarded", "onboarded", "copy", <<>>>>,
     <<"department", "department", "copy", <<>>>>,
     <<"terminated", "terminated", "copy", <<>>>>,
     <<"terminationDate", "termination_date", "copy", <<>>>>,
     <<"currentEmploymentStatus", "current_employment_status", "copy", <<>>>>,
     <<"workEmail", "work_email", "copy", <<>>>>,
     <<"homeAddress", "home_address", "guard",
       << <<"street1", "street_1", "copy", <<>>>>,
          <<"street2", "street_2", "copy", <<>>>>,
          <<"city", "city", "copy", <<>>>>,
          <<"state", "state", "copy", <<>>>>,
          <<"zip", "zip", "copy", <<>>>>,
          <<"country", "country", "copy", <<>>>> >>>>,
     <<"jobs", "jobs", "map", mapJob>>,
     <<"garnishments", "garnishments", "map", mapGarnishment>>,
     <<"customFields", "custom_fields", "copy", <<>>>>,
     <<"paymentMethod", "payment_method", "copy", <<>>>>,
     <<"hasDirectDeposit", "has_direct_deposit", "copy", <<>>>> >>

\* mapContractor: the object literal it returns (index.ts 1497-1521)
mapContractor ==
  << <<"uuid", "uuid", "copy", <<>>>>,
     <<"companyUuid", "company_uuid", "copy", <<>>>>,
     <<"type", "type", "copy", <<>>>>,
     <<"wageType", "wage_type", "copy", <<>>>>,
     <<"firstName", "first_name", "copy", <<>>>>,
     <<"lastName", "last_name", "copy", <<>>>>,
     <<"middleInitial", "middle_initial", "copy", <<>>>>,
     <<"email", "email", "copy", <<>>>>,
     <<"businessName", "business_name", "copy", <<>>>>,
     <<"ein", "ein", "copy", <<>>>>,
     <<"isActive", "is_active", "copy", <<>>>>,
     <<"startDate", "start_date", "copy", <<>>>>,
     <<"address", "address", "guard",
       << <<"street1", "street_1", "copy", <<>>>>,
          <<"street2", "street_2", "copy", <<>>>>,
          <<"city", "city", "copy", <<>>>>,
          <<"state", "state", "copy", <<>>>>,
          <<"zip", "zip", "copy", <<>>>>,
          <<"country", "country", "copy", <<>>>> >>>>,
     <<"hourlyRate", "hourly_rate", "copy", <<>>>>,
     <<"onboarded", "onboarded", "copy", <<>>>>,
     <<"selfOnboarding", "self_onboarding", "copy", <<>>>> >>

\* mapPayroll: the object literal it returns (index.ts 1691-1730)
mapPayroll ==
  << <<"payrollUuid", "payroll_uuid", "copy", <<>>>>,
     <<"uuid", "uuid", "copy", <<>>>>,
     <<"companyUuid", "company_uuid", "copy", <<>>>>,
     <<"processed", "processed", "copy", <<>>>>,
     <<"processedDate", "processed_date", "copy", <<>>>>,
     <<"payPeriodStartDate", "pay_period_start_date", "copy", <<>>>>,
     <<"payPeriodEndDate", "pay_period_end_date", "copy", <<>>>>,
     <<"checkDate", "check_date", "copy", <<>>>>,
     <<"payrollDeadline", "payroll_deadline", "copy", <<>>>>,
     <<"payScheduleUuid", "pay_schedule_uuid", "copy", <<>>>>,
     <<"payScheduleType", "pay_schedule_type", "copy", <<>>>>,
     <<"version", "version", "copy", <<>>>>,
     <<"totals", "totals", "guard",
       << <<"companyDebit", "company_debit", "copy", <<>>>>,
          <<"reimbursements", "reimbursements", "copy", <<>>>>,
          <<"netPay", "net_pay", "copy", <<>>>>,
          <<"grossPay", "gross_pay", "copy", <<>>>>,
          <<"employerTaxes", "employer_taxes", "copy", <<>>>>,
          <<"employeeTaxes", "employee_taxes", "copy", <<>>>>,
          <<"benefits", "benefits", "copy", <<>>>>,
          <<"employerBenefits", "employer_benefits", "copy", <<>>>>,
          <<"employeeBenefits", "employee_benefits", "copy", <<>>>>,
          <<"deferredPayroll", "deferred_payroll", "copy", <<>>>>,
          <<"childSupportDebit", "child_support_debit", "copy", <<>>>> >>>>,
     <<"employeeCompensations", "employee_compensations", "map",
       << <<"employeeUuid", "employee_uuid", "copy", <<>>>>,
          <<"excluded", "excluded", "copy", <<>>>>,
          <<"grossPay", "gross_pay", "copy", <<>>>>,
          <<"netPay", "net_pay", "copy", <<>>>>,
          <<"paymentMethod", "payment_method", "copy", <<>>>>,
          <<"fixedCompensations", "fixed_compensations", "copy", <<>>>>,
          <<"hourlyCompensations", "hourly_compensations", "copy", <<>>>>,
          <<"paidTimeOff", "paid_time_off", "copy", <<>>>>,
          <<"taxes", "taxes", "copy", <<>>>>,
          <<"benefits", "benefits", "copy", <<>>>>,
          <<"deductions", "deductions", "copy", <<>>>> >>>> >>

\* listCompanyBankAccounts: the object literal it returns (index.ts 710-718)
companyBankAccount ==
  << <<"uuid", "uuid", "copy", <<>>>>,
     <<"companyUuid", "company_uuid", "copy", <<>>>>,
     <<"name", "name", "copy", <<>>>>,
     <<"routingNumber", "routing_number", "copy", <<>>>>,
     <<"accountNumber", "hidden_account_number", "copy", <<>>>>,
     <<"accountType", "account_type", "copy", <<>>>>,
     <<"verificationStatus", "verification_status", "copy", <<>>>> >>

\* listEmployeeBankAccounts: the object literal it returns (index.ts 1307-1315)
employeeBankAccount ==
  << <<"uuid", "uuid", "copy", <<>>>>,
     <<"employeeUuid", "employee_uuid", "copy", <<>>>>,
     <<"name", "name", "copy", <<>>>>,
     <<"routingNumber", "routing_number", "copy", <<>>>>,
     <<"accountNumber", "account_number", "copy", <<>>>>,
     <<"accountType", "account_type", "copy", <<>>>>,
     <<"hidden_account_number", "hidden_account_number", "copy", <<>>>> >>

\* listContractorBankAccounts: the object literal it returns (index.ts 1530-1537)
contractorBankAccount ==
  << <<"uuid", "uuid", "copy", <<>>>>,
     <<"contractorUuid", "contractor_uuid", "copy", <<>>>>,
     <<"name", "name", "copy", <<>>>>,
     <<"routingNumber", "routing_number", "copy", <<>>>>,
     <<"accountNumber", "hidden_account_number", "copy", <<>>>>,
     <<"accountType", "account_type", "copy", <<>>>> >>

\* getEmployeePaymentMethod: the object literal it returns (index.ts 1341-1345)
employeePaymentMethod ==
  << <<"type", "type", "copy", <<>>>>,
     <<"splitBy", "split_by", "copy", <<>>>>,
     <<"splits", "splits", "copy", <<>>>> >>

\* getFederalTaxes: the object literal it returns (index.ts 1230-1240)
federalTaxes ==
  << <<"uuid", "uuid", "copy", <<>>>>,
     <<"version", "version", "copy", <<>>>>,
     <<"filingStatus", "filing_status", "copy", <<>>>>,
     <<"extraWithholding", "extra_withholding", "copy", <<>>>>,
     <<"twoJobs", "two_jobs", "copy", <<>>>>,
     <<"dependentsAmount", "dependents_amount", "copy", <<>>>>,
     <<"otherIncome", "other_income", "copy", <<>>>>,
     <<"deductions", "deductions", "copy", <<>>>>,
     <<"w4DataType", "w4_data_type", "copy", <<>>>> >>


mapPaySchedule ==
  << <<"uuid", "uuid", "copy", <<>>>>,
     <<"companyUuid", "company_uuid", "copy", <<>>>>,
     <<"frequency", "frequency", "copy", <<>>>>,
     <<"anchorPayDate", "anchor_pay_date", "copy", <<>>>>,
     <<"anchorEndOfPayPeriod", "anchor_end_of_pay_period", "copy", <<>>>>,
     <<"day1", "day_1", "copy", <<>>>>,
     <<"day2", "day_2", "copy", <<>>>>,
     <<"name", "name", "copy", <<>>>>,
     <<"autoPilot", "auto_pilot", "copy", <<>>>>,
     <<"employees", "employees", "copy", <<>>>> >>

\* updateCompany: the object literal it serialises (index.ts 605-605)
updateCompanyBody ==
  << <<"name", "name", "copy", <<>>>>,
     <<"trade_name", "tradeName", "copy", <<>>>> >>

\* updateLocation: the object literal it serialises (index.ts 672-682)
updateLocationBody ==
  << <<"phone_number", "phoneNumber", "copy", <<>>>>,
     <<"street_1", "street1", "copy", <<>>>>,
     <<"street_2", "street2", "copy", <<>>>>,
     <<"city", "city", "copy", <<>>>>,
     <<"state", "state", "copy", <<>>>>,
     <<"zip", "zip", "copy", <<>>>>,
     <<"country", "country", "copy", <<>>>>,
     <<"mailing_address", "mailingAddress", "copy", <<>>>>,
     <<"filing_address", "filingAddress", "copy", <<>>>> >>

\* createCompanyBankAccount: the object literal it serialises (index.ts 724-729)
createCompanyBankAccountBody ==
  << <<"name", "name", "copy", <<>>>>,
     <<"routing_number", "routingNumber", "copy", <<>>>>,
     <<"account_number", "accountNumber", "copy", <<>>>>,
     <<"account_type", "accountType", "copy", <<>>>> >>

\* createEmployee: the object literal it serialises (index.ts 888-896)
createEmployeeBody ==
  << <<"first_name", "firstName", "copy", <<>>>>,
     <<"last_name", "lastName", "copy", <<>>>>,
     <<"middle_name", "middleName", "copy", <<>>>>,
     <<"date_of_birth", "dateOfBirth", "copy", <<>>>>,
     <<"email", "email", "copy", <<>>>>,
     <<"ssn", "ssn", "copy", <<>>>>,
     <<"self_onboarding", "selfOnboarding", "copy", <<>>>> >>

\* updateEmployee: the object literal it serialises (index.ts 904-913)
updateEmployeeBody ==
  << <<"first_name", "firstName", "copy", <<>>>>,
     <<"last_name", "lastName", "copy", <<>>>>,
     <<"middle_name", "middleName", "copy", <<>>>>,
     <<"preferred_first_name", "preferredFirstName", "copy", <<>>>>,
     <<"email", "email", "copy", <<>>>>,
     <<"date_of_birth", "dateOfBirth", "copy", <<>>>>,
     <<"ssn", "ssn", "copy", <<>>>>,
     <<"two_percent_shareholder", "twoPercentShareholder", "copy", <<>>>> >>

\* createEmployeeBankAccount: the object literal it serialises (index.ts 1321-1326)
createEmployeeBankAccountBody ==
  << <<"name", "name", "copy", <<>>>>,
     <<"routing_number", "routingNumber", "copy", <<>>>>,
     <<"account_number", "accountNumber", "copy", <<>>>>,
     <<"account_type", "accountType", "copy", <<>>>> >>

\* updateEmployeePaymentMethod: the object literal it serialises (index.ts 1351-1359)
updateEmployeePaymentMethodBody ==
  << <<"type", "type", "copy", <<>>>>,
     <<"split_by", "splitBy", "copy", <<>>>>,
     <<"splits", "splits", "map",
       << <<"bank_account_uuid", "bankAccountUuid", "copy", <<>>>>,
          <<"priority", "priority", "copy", <<>>>>,
          <<"split_amount", "splitAmount", "copy", <<>>>> >>>> >>

mapHomeAddress ==
  << <<"uuid", "uuid", "copy", <<>>>>,
     <<"employeeUuid", "employee_uuid", "copy", <<>>>>,
     <<"version", "version", "copy", <<>>>>,
     <<"street1", "street_1", "copy", <<>>>>,
     <<"street2", "street_2", "copy", <<>>>>,
     <<"city", "city", "copy", <<>>>>,
     <<"state", "state", "copy", <<>>>>,
     <<"zip", "zip", "copy", <<>>>>,
     <<"country", "country", "copy", <<>>>>,
     <<"active", "active", "copy", <<>>>>,
     <<"effectiveDate", "effective_date", "copy", <<>>>> >>

\* updateHomeAddress: the object literal it serialises (index.ts 1108-1115)
updateHomeAddressBody ==
  << <<"street_1", "street1", "copy", <<>>>>,
     <<"street_2", "street2", "copy", <<>>>>,
     <<"city", "city", "copy", <<>>>>,
     <<"state", "state", "copy", <<>>>>,
     <<"zip", "zip", "copy", <<>>>>,
     <<"effective_date", "effectiveDate", "copy", <<>>>> >>

\* updateFederalTaxes: the object literal it serialises (index.ts 1246-1254)
updateFederalTaxesBody ==
  << <<"version", "version", "copy", <<>>>>,
     <<"filing_status", "filingStatus", "copy", <<>>>>,
     <<"extra_withholding", "extraWithholding", "copy", <<>>>>,
     <<"two_jobs", "twoJobs", "copy", <<>>>>,
     <<"dependents_amount", "dependentsAmount", "copy", <<>>>>,
     <<"other_income", "otherIncome", "copy", <<>>>>,
     <<"deductions", "deductions", "copy", <<>>>> >>

\* updatePayroll: the object literal it serialises (index.ts 1637-1657);
\* employeeCompensations.map is called without a guard ("mapAlways").
updatePayrollBody ==
  << <<"version", "version", "copy", <<>>>>,
     <<"employee_compensations", "employeeCompensations", "mapAlways",
       << <<"employee_uuid", "employeeUuid", "copy", <<>>>>,
          <<"excluded", "excluded", "copy", <<>>>>,
          <<"fixed_compensations", "fixedCompensations", "map",
            << <<"name", "name", "copy", <<>>>>,
               <<"amount", "amount", "copy", <<>>>>,
               <<"job_uuid", "jobUuid", "copy", <<>>>> >>>>,
          <<"hourly_compensations", "hourlyCompensations", "map",
            << <<"name", "name", "copy", <<>>>>,
               <<"hours", "hours", "copy", <<>>>>,
               <<"job_uuid", "jobUuid", "copy", <<>>>> >>>>,
          <<"paid_time_off", "paidTimeOff", "map",
            << <<"name", "name", "copy", <<>>>>,
               <<"hours", "hours", "copy", <<>>>> >>>> >>>> >>

Mappers ==
  [mapLocation |-> mapLocation, mapCompany |-> mapCompany,
   mapCompensation |-> mapCompensation, mapJob |-> mapJob,
   mapGarnishment |-> mapGarnishment, mapEmployee |-> mapEmployee,
   mapContractor |-> mapContractor, mapPayroll |-> mapPayroll,
   companyBankAccount |-> companyBankAccount,
   employeeBankAccount |-> employeeBankAccount,
   contractorBankAccount |-> contractorBankAccount,
   employeePaymentMethod |-> employeePaymentMethod,
   federalTaxes |-> federalTaxes, mapPaySchedule |-> mapPaySchedule,
   mapHomeAddress |-> mapHomeAddress]

\* The mutating methods modelled: the body each serialises and the literal
\* that maps the response it awaits.
Mutations ==
  [updateCompany |-> [body |-> updateCompanyBody, mapper |-> "mapCompany"],
   updateLocation |-> [body |-> updateLocationBody, mapper |-> "mapLocation"],
   createCompanyBankAccount |->
     [body |-> createCompanyBankAccountBody, mapper |-> "companyBankAccount"],
   createEmployee |-> [body |-> createEmployeeBody, mapper |-> "mapEmployee"],
   updateEmployee |-> [body |-> updateEmployeeBody, mapper |-> "mapEmployee"],
   createEmployeeBankAccount |->
     [body |-> createEmployeeBankAccountBody, mapper |-> "employeeBankAccount"],
   updateEmployeePaymentMethod |->
     [body |-> updateEmployeePaymentMethodBody, mapper |-> "employeePaymentMethod"],
   updateHomeAddress |-> [body |-> updateHomeAddressBody, mapper |-> "mapHomeAddress"],
   updateFederalTaxes |-> [body |-> updateFederalTaxesBody, mapper |-> "federalTaxes"],
   updatePayroll |-> [body |-> updatePayrollBody, mapper |-> "mapPayroll"]]

\* The outcomes of evaluating the properties of a literal, in order: the
\* first throw, or the object of the values.
Collect(targets, outs) ==
  IF \E i \in 1..Len(outs) : outs[i].threw
  THEN outs[CHOOSE i \in 1..Len(outs) :
              outs[i].threw /\ \A j \in 1..(i - 1) : ~outs[j].threw]
  ELSE Return(JsObject([k \in {targets[i] : i \in 1..Len(targets)} |->
                          outs[CHOOSE i \in 1..Len(targets) : targets[i] = k].value]))

CollectArray(outs) ==
  IF \E i \in 1..Len(outs) : outs[i].threw
  THEN outs[CHOOSE i \in 1..Len(outs) :
              outs[i].threw /\ \A j \in 1..(i - 1) : ~outs[j].threw]
  ELSE Return(JsArray([i \in 1..Len(outs) |-> outs[i].value]))

\* Evaluates the object literal fields on the value x.  Reading a property
\* of undefined or null throws a TypeError, and so does calling map on a
\* value that is not an array.
RECURSIVE ObjectLiteral(_, _)
PropertyUnguarded(e, x) ==
  LET y == Get(x, e[2]) IN
  CASE e[3] = "copy" -> Return(y)
    [] e[3] = "guard" -> ObjectLiteral(e[4], y)
    [] e[3] \in {"map", "mapAlways"} ->
         IF y.t # "array" THEN Throw(NativeError("TypeError", <<"map is not a function">>))
         ELSE CollectArray([i \in 1..Len(y.v) |-> ObjectLiteral(e[4], y.v[i])])

Property(e, x) ==
  LET y == Get(x, e[2]) IN
  CASE e[3] = "copy" -> Return(y)
    [] e[3] = "guard" -> IF JsTruthy(y) THEN ObjectLiteral(e[4], y) ELSE Return(JsUndefined)
    [] e[3] = "map" ->
         IF y.t \in {"undefined", "null"} THEN Return(JsUndefined)
         ELSE IF y.t # "array"
         THEN Throw(NativeError("TypeError", <<"map is not a function">>))
         ELSE CollectArray([i \in 1..Len(y.v) |-> ObjectLiteral(e[4], y.v[i])])
    [] e[3] = "mapAlways" ->
         IF y.t # "array" THEN Throw(NativeError("TypeError", <<"map is not a function">>))
         ELSE CollectArray([i \in 1..Len(y.v) |-> ObjectLiteral(e[4], y.v[i])])

ObjectLiteral(fields, x) ==
  IF x.t \in {"undefined", "null"} THEN Throw(TypeErrorOf(x.t))
  ELSE Collect([i \in 1..Len(fields) |-> fields[i][1]],
               [i \in 1..Len(fields) |-> Property(fields[i], x)])

\* fromWire: a map helper applied to a decoded response body.
FromWire(mapper, wire) == ObjectLiteral(Mappers[mapper], wire)

\* toWire: the body a mutating method sends, as the upstream API parses it.
ToWire(op, data) ==
  LET o == ObjectLiteral(Mutations[op].body, data) IN
  IF o.threw THEN o ELSE Return(JsonStringify(o.value))

\* ======================================================================
\* Pagination (listEmployees and the pagination utilities)
\* ======================================================================
PAGINATION_DEFAULTS == [per |-> 25, maxPer |-> 100]

\* params?.k
OptGet(params, k) == IF params.t \in {"undefined", "null"} THEN JsUndefined ELSE Get(params, k)

\* a || n for an optional number a
NumberOr(a, n) == IF JsTruthy(a) THEN a.v ELSE n

Min(a, b) == IF a <= b THEN a ELSE b

\* String(v) of a number or boolean query value.
QueryString(x) ==
  IF x.t = "number" THEN ToString(x.v)
  ELSE IF x = JsBool(TRUE) THEN "true" ELSE "false"

ListEmployeesQueryWithoutPer(params) ==
  LET page == OptGet(params, "page")
      terminated == OptGet(params, "terminated")
      keys == (IF JsTruthy(page) THEN {"page"} ELSE {})
              \cup (IF terminated # JsUndefined THEN {"terminated"} ELSE {})
  IN [k \in keys |-> QueryString(OptGet(params, k))]

\* The query string listEmployees sends: the parameters it sets, each as the
\* string URLSearchParams.set stores.
ListEmployeesQuery(params) ==
  LET page == OptGet(params, "page")
      per == OptGet(params, "per")
      terminated == OptGet(params, "terminated")
      keys == (IF JsTruthy(page) THEN {"page"} ELSE {})
              \cup (IF JsTruthy(per) THEN {"per"} ELSE {})
              \cup (IF terminated # JsUndefined THEN {"terminated"} ELSE {})
  IN [k \in keys |-> QueryString(OptGet(params, k))]

ListEmployeesCountsTotal(params, data) ==
  LET items == CollectArray([i \in 1..Len(data.v) |-> FromWire("mapEmployee", data.v[i])])
      full == Len(data.v) = NumberOr(OptGet(params, "per"), 25)
  IN IF items.threw THEN items
     ELSE Return(JsObject(
            [items |-> items.value,
             count |-> JsNumber(NumberOr(OptGet(params, "per"), 25)),
             hasMore |-> JsBool(full),
             nextPage |-> IF full THEN JsNumber(NumberOr(OptGet(params, "page"), 1) + 1)
                                  ELSE JsUndefined]))

ListEmployeesFixedPage(params, data) ==
  LET items == CollectArray([i \in 1..Len(data.v) |-> FromWire("mapEmployee", data.v[i])])
      full == Len(data.v) = 25
  IN IF items.threw THEN items
     ELSE Return(JsObject(
            [items |-> items.value,
             count |-> JsNumber(Len(items.value.v)),
             hasMore |-> JsBool(full),
             nextPage |-> IF full THEN JsNumber(NumberOr(OptGet(params, "page"), 1) + 1)
                                  ELSE JsUndefined]))

\* listEmployees, given the decoded body its request returned.
ListEmployees(params, data) ==
  IF data.t \in {"undefined", "null"} THEN Throw(TypeErrorOf(data.t))
  ELSE IF data.t # "array" THEN Throw(NativeError("TypeError", <<"data.map is not a function">>))
  ELSE
  LET items == CollectArray([i \in 1..Len(data.v) |-> FromWire("mapEmployee", data.v[i])])
      full == Len(items.value.v) = NumberOr(OptGet(params, "per"), 25)
  IN IF items.threw THEN items
     ELSE Return(JsObject(
            [items |-> items.value,
             count |-> JsNumber(Len(items.value.v)),
             hasMore |-> JsBool(full),
             nextPage |-> IF full THEN JsNumber(NumberOr(OptGet(params, "page"), 1) + 1)
                                  ELSE JsUndefined]))

NormalizeWithoutCap(params, maxPer) ==
  JsObject([per |-> JsNumber(NumberOr(OptGet(params, "per"), PAGINATION_DEFAULTS.per)),
            page |-> OptGet(params, "page")])

\* normalizePaginationParams(params, maxPer); an undefined maxPer takes the
\* default.
NormalizePaginationParams(params, maxPer) ==
  LET cap == IF maxPer = JsUndefined THEN PAGINATION_DEFAULTS.maxPer ELSE maxPer.v IN
  JsObject([per |-> JsNumber(Min(NumberOr(OptGet(params, "per"), PAGINATION_DEFAULTS.per), cap)),
            page |-> OptGet(params, "page")])

EmptyPaginatedResponse ==
  JsObject([items |-> JsArray(<<>>), count |-> JsNumber(0), hasMore |-> JsBool(FALSE)])

\* createPaginatedResponse(items, options); undefined options are {}.
CreatePaginatedResponse(items, options) ==
  LET o == IF options = JsUndefined THEN EmptyObject ELSE options IN
  JsObject([items |-> items,
            count |-> JsNumber(Len(items.v)),
            total |-> Get(o, "total"),
            hasMore |-> IF Get(o, "hasMore") \in {JsUndefined, JsNull}
                        THEN JsBool(FALSE) ELSE Get(o, "hasMore"),
            nextPage |-> Get(o, "nextPage")])

HasMoreItems(page, per, total) == page * per < total

GetNextPage(currentPage, per, total) ==
  IF currentPage * per < total THEN JsNumber(currentPage + 1) ELSE JsUndefined

\* ---------------------------------------- SpecPage: the pagination
\* functions, each applied once to arguments drawn from bounded sets.
MaxItems == 26
MaxPage == 3

OptionalNumbers(S) == {JsUndefined} \cup {JsNumber(n) : n \in S}

\* An object with the properties of f that are not undefined.
ObjectOf(f) == JsObject([k \in {j \in DOMAIN f : f[j] # JsUndefined} |-> f[k]])

\* The body upstream returns for a page of n employees.
EmployeePage(n) == JsArray([i \in 1..n |-> JsObject([uuid |-> JsString("employee"), first_name |-> JsNumber(i)])])

\* The arguments the gusto_list_employees handler passes: page and per are
\* absent or integers >= 1 (its schema), terminated is absent or a boolean.
ListEmployeesArgs ==
  {[fn |-> "listEmployees",
    params |-> ObjectOf([page |-> page, per |-> per, terminated |-> terminated]),
    data |-> EmployeePage(n)] :
     page \in OptionalNumbers(1..MaxPage),
     per \in OptionalNumbers((1..MaxItems) \cup {PAGINATION_DEFAULTS.maxPer}),
     terminated \in {JsUndefined, JsBool(FALSE)}, n \in 0..MaxItems}

NormalizeArgs ==
  {[fn |-> "normalizePaginationParams", params |-> params, maxPer |-> maxPer] :
     params \in {JsUndefined}
                \cup {ObjectOf([page |-> page, per |-> per]) :
                        page \in OptionalNumbers({2}),
                        per \in OptionalNumbers({0 - 1, 0, 1, 24, 25, 26, 99, 100, 101, 500})},
     maxPer \in OptionalNumbers({0, 1, 10, 25, 100, 200})}

CreateArgs ==
  {[fn |-> "createPaginatedResponse",
    items |-> JsArray([i \in 1..n |-> JsNumber(i)]), options |-> options] :
     n \in 0..MaxPage,
     options \in {JsUndefined}
                 \cup {ObjectOf([total |-> total, hasMore |-> hasMore, nextPage |-> nextPage]) :
                         total \in OptionalNumbers({0, 7}),
                         hasMore \in {JsUndefined, JsBool(TRUE), JsBool(FALSE)},
                         nextPage \in OptionalNumbers(1..MaxPage)}}

TotalArgs ==
  {[fn |-> f, page |-> page, per |-> per, total |-> total] :
     f \in {"hasMoreItems", "getNextPage"},
     page \in 1..MaxPage, per \in {1, 2, 25}, total \in {0, 1, 2, 3, 4, 25, 26, 50, 51}}

PageArgs ==
  ListEmployeesArgs \cup NormalizeArgs \cup CreateArgs \cup TotalArgs
  \cup {[fn |-> "emptyPaginatedResponse"]}

InitPage ==
  /\ InitReqs /\ thrown = None /\ rendered = None
  /\ args \in PageArgs
  /\ result = None

Apply(fn, value) ==
  /\ result = None
  /\ args.fn = fn
  /\ result' = value
  /\ UNCHANGED <<reqs, calls, thrown, rendered, args>>

CallListEmployees ==
  /\ args.fn = "listEmployees"
  /\ Apply("listEmployees",
           [query |-> ListEmployeesQuery(args.params),
            out |-> ListEmployees(args.params, args.data)])

CallNormalizePaginationParams ==
  /\ args.fn = "normalizePaginationParams"
  /\ Apply("normalizePaginationParams",
           [out |-> Return(NormalizePaginationParams(args.params, args.maxPer))])

CallCreatePaginatedResponse ==
  /\ args.fn = "createPaginatedResponse"
  /\ Apply("createPaginatedResponse",
           [out |-> Return(CreatePaginatedResponse(args.items, args.options))])

CallEmptyPaginatedResponse ==
  Apply("emptyPaginatedResponse", [out |-> Return(EmptyPaginatedResponse)])

CallHasMoreItems ==
  /\ args.fn = "hasMoreItems"
  /\ Apply("hasMoreItems",
           [out |-> Return(JsBool(HasMoreItems(args.page, args.per, args.total)))])

CallGetNextPage ==
  /\ args.fn = "getNextPage"
  /\ Apply("getNextPage", [out |-> Return(GetNextPage(args.page, args.per, args.total))])

NextPage ==
  \/ CallListEmployees
  \/ CallNormalizePaginationParams
  \/ CallCreatePaginatedResponse
  \/ CallEmptyPaginatedResponse
  \/ CallHasMoreItems
  \/ CallGetNextPage

SpecPage == InitPage /\ [][NextPage]_vars

\* ----------------------------------------------------------------------
Called(fn) == result # None /\ args.fn = fn
Returned(fn) == Called(fn) /\ ~result.out.threw

\* C11: listEmployees called with page p (1 when absent) and page size n (25
\* when absent) returns hasMore = true and nextPage = p + 1 when upstream
\* returned exactly n items, and hasMore = false and no nextPage when it
\* returned fewer than n.
C11_ListEmployeesHasMore ==
  Called("listEmployees")
  => LET p == IF "page" \in DOMAIN args.params.v THEN args.params.v.page.v ELSE 1
         n == IF "per" \in DOMAIN args.params.v THEN args.params.v.per.v ELSE 25
         got == Len(args.data.v)
         r == result.out.value
     IN /\ ~result.out.threw
        /\ got = n => r.v.hasMore = JsBool(TRUE) /\ r.v.nextPage = JsNumber(p + 1)
        /\ got < n => r.v.hasMore = JsBool(FALSE) /\ r.v.nextPage = JsUndefined

C11_Witness ==
  /\ Returned("listEmployees")
  /\ DOMAIN args.params.v = {}
  /\ Len(args.data.v) = 25
  /\ result.out.value.v.hasMore = JsBool(TRUE)
  /\ result.out.value.v.nextPage = JsNumber(2)

IsPaginated(fn) == fn \in {"listEmployees", "createPaginatedResponse", "emptyPaginatedResponse"}

\* C12: every PaginatedResponse that listEmployees, createPaginatedResponse
\* or emptyPaginatedResponse returns has count equal to the length of its
\* items, and listEmployees returns one item per upstream record.
C12_CountIsLength ==
  (result # None /\ IsPaginated(args.fn) /\ ~result.out.threw)
  => LET r == result.out.value.v IN
     /\ r.count = JsNumber(Len(r.items.v))
     /\ args.fn = "listEmployees" => Len(r.items.v) = Len(args.data.v)
     /\ args.fn = "createPaginatedResponse" => r.items = args.items
     /\ args.fn = "emptyPaginatedResponse" => r.items = JsArray(<<>>)

C12_Witness ==
  /\ Returned("listEmployees")
  /\ Len(args.data.v) = 3
  /\ Get(args.params, "per") = JsNumber(2)
  /\ result.out.value.v.count = JsNumber(3)

\* The options of createPaginatedResponse without the hasMore and nextPage a
\* caller supplied.
WithoutSupplied(options) ==
  IF options = JsUndefined THEN options
  ELSE JsObject([k \in DOMAIN options.v \ {"hasMore", "nextPage"} |-> options.v[k]])

\* C13: hasMore and nextPage of a PaginatedResponse are derived from the items
\* and the pagination parameters and never supplied by the caller: what
\* createPaginatedResponse returns for them does not depend on a hasMore or
\* nextPage the caller passed, and listEmployees computes them from the item
\* count, per and page.
C13_DerivedNotSupplied ==
  /\ Returned("createPaginatedResponse")
       => LET derived == CreatePaginatedResponse(args.items, WithoutSupplied(args.options)) IN
          /\ result.out.value.v.hasMore = derived.v.hasMore
          /\ result.out.value.v.nextPage = derived.v.nextPage
  /\ Returned("listEmployees")
       => LET r == result.out.value.v
              full == Len(args.data.v) = NumberOr(Get(args.params, "per"), 25)
          IN /\ r.hasMore = JsBool(full)
             /\ (r.nextPage # JsUndefined) = full

\* A caller of createPaginatedResponse passes hasMore and nextPage for a
\* single item and gets them back.
C13_Witness ==
  /\ Returned("createPaginatedResponse")
  /\ Len(args.items.v) = 1
  /\ Get(args.options, "hasMore") = JsBool(TRUE)
  /\ Get(args.options, "nextPage") = JsNumber(3)
  /\ Get(args.options, "total") = JsUndefined
  /\ result.out.value.v.hasMore = JsBool(TRUE)
  /\ result.out.value.v.nextPage = JsNumber(3)

ExtraHeaders(call) == DOMAIN call.headers \ {"Authorization", "ContentType"}

\* C15: every upstream call carries "Authorization: Bearer <token>" with the
\* inbound request's token and, when the inbound request had an
\* X-Gusto-API-Version header, a further header carrying that version.
C15_AuthAndVersionHeaders ==
  \A r \in Reqs : \A i \in 1..Len(calls[r]) :
    /\ calls[r][i].headers.Authorization = <<"Bearer ", reqs[r].tokenHdr>>
    /\ reqs[r].versionHdr # Null
         => \E k \in ExtraHeaders(calls[r][i]) : calls[r][i].headers[k] = reqs[r].versionHdr

\* An inbound request with an API version has led to an upstream call that
\* carries the bearer token and nothing of the version.
C15_Witness ==
  \E r \in Reqs :
    /\ Len(calls[r]) = 1
    /\ reqs[r].versionHdr = "2024-04-01"
    /\ reqs[r].server.client.credentials.apiVersion = "2024-04-01"
    /\ calls[r][1].headers.Authorization = <<"Bearer ", reqs[r].tokenHdr>>
    /\ ExtraHeaders(calls[r][1]) = {}

\* ---------------------------------------- SpecMap: a map helper applied to
\* a wire object, or a request body serialised from a domain object and
\* mapped back, with the objects drawn from bounded sets.
MaxPresent == 2

Sources(fields) == {fields[i][2] : i \in 1..Len(fields)}
Targets(fields) == {fields[i][1] : i \in 1..Len(fields)}
EntryOf(fields, k) == fields[CHOOSE i \in 1..Len(fields) : fields[i][2] = k]

\* The subsets of S with at most n elements.
RECURSIVE SmallSubsets(_, _)
SmallSubsets(S, n) ==
  IF n = 0 THEN {{}}
  ELSE LET P == SmallSubsets(S, n - 1) IN P \cup {K \cup {x} : K \in P, x \in S}

\* Nested wire values the map helpers copy without mapping them, as the
\* upstream API sends them.
NestedWire ==
  [minimum_wages |->
     JsArray(<<JsObject([uuid |-> JsString("uuid"), wage |-> JsString("wage"),
                         effective_date |-> JsString("effective_date")])>>),
   splits |->
     JsArray(<<JsObject([uuid |-> JsString("uuid"),
                         bank_account_uuid |-> JsString("bank_account_uuid"),
                         name |-> JsString("name"), priority |-> JsNumber(1),
                         split_amount |-> JsString("split_amount")])>>),
   fixed_compensations |->
     JsArray(<<JsObject([name |-> JsString("name"), amount |-> JsString("amount"),
                         job_uuid |-> JsString("job_uuid")])>>),
   hourly_compensations |->
     JsArray(<<JsObject([name |-> JsString("name"), hours |-> JsString("hours"),
                         job_uuid |-> JsString("job_uuid"),
                         compensation_multiplier |-> JsNumber(1)])>>),
   paid_time_off |->
     JsArray(<<JsObject([name |-> JsString("name"), hours |-> JsString("hours")])>>),
   taxes |->
     JsArray(<<JsObject([name |-> JsString("name"), amount |-> JsString("amount"),
                         employer |-> JsBool(TRUE)])>>),
   deductions |->
     JsArray(<<JsObject([name |-> JsString("name"), amount |-> JsString("amount")])>>)]

\* A value of the wire field k when upstream sends one: its own name as a
\* string, or its nested value.
SampleValue(k) == IF k \in DOMAIN NestedWire THEN NestedWire[k] ELSE JsString(k)

\* The wire object with every field a literal reads.
RECURSIVE FullInput(_)
FullInput(fields) ==
  JsObject([k \in Sources(fields) |->
              LET e == EntryOf(fields, k) IN
              CASE e[3] = "copy" -> SampleValue(k)
                [] e[3] = "guard" -> FullInput(e[4])
                [] e[3] = "map" -> JsArray(<<FullInput(e[4])>>)])

\* The values upstream may send for one field: null, or a value of its type
\* (for a nested object or array also an empty one).
FieldInputs(e) ==
  CASE e[3] = "copy" -> {JsNull, SampleValue(e[2])}
    [] e[3] = "guard" -> {JsNull, EmptyObject, FullInput(e[4])}
    [] e[3] = "map" -> {JsNull, JsArray(<<>>), JsArray(<<FullInput(e[4]), EmptyObject>>)}

RECURSIVE Assignments(_, _)
Assignments(fields, K) ==
  IF K = {} THEN {[k \in {} |-> JsUndefined]}
  ELSE LET k == CHOOSE x \in K : TRUE IN
       {(k :> v) @@ f : v \in FieldInputs(EntryOf(fields, k)),
                        f \in Assignments(fields, K \ {k})}

\* Wire objects holding any MaxPresent of the fields, or all of them.
WireInputs(fields) ==
  {FullInput(fields)}
  \cup {JsObject(f) : f \in UNION {Assignments(fields, K) :
                                     K \in SmallSubsets(Sources(fields), MaxPresent)}}

\* The fields of the input type of each mutating method.  updateHomeAddress
\* takes a Partial<HomeAddressCreateInput>, to which the HomeAddress a caller
\* read (with its version) is assignable.
InputTypes ==
  [updateCompany |->
     {"uuid", "name", "tradeName", "ein", "entityType", "companyStatus", "tier",
      "isPartnerManaged", "primarySignatory", "primaryPayrollAdmin", "locations"},
   updateLocation |->
     {"phoneNumber", "street1", "street2", "city", "state", "zip", "country",
      "mailingAddress", "filingAddress"},
   createCompanyBankAccount |-> {"name", "routingNumber", "accountNumber", "accountType"},
   createEmployee |->
     {"firstName", "lastName", "middleName", "dateOfBirth", "email", "ssn",
      "selfOnboarding"},
   updateEmployee |->
     {"firstName", "lastName", "middleName", "preferredFirstName", "email",
      "dateOfBirth", "ssn", "twoPercentShareholder"},
   createEmployeeBankAccount |-> {"name", "routingNumber", "accountNumber", "accountType"},
   updateEmployeePaymentMethod |-> {"type", "splitBy", "splits"},
   updateHomeAddress |->
     {"street1", "street2", "city", "state", "zip", "effectiveDate", "version"},
   updateFederalTaxes |->
     {"uuid", "version", "filingStatus", "extraWithholding", "twoJobs", "dependentsAmount",
      "otherIncome", "deductions", "w4DataType"},
   updatePayroll |-> {"version", "employeeCompensations"}]

\* Domain values that are not strings.
NestedDomain ==
  [splits |->
     JsArray(<<JsObject([uuid |-> JsString("uuid"),
                         bankAccountUuid |-> JsString("bankAccountUuid"),
                         name |-> JsString("name"), priority |-> JsNumber(1),
                         splitAmount |-> JsString("splitAmount")]),
               JsObject([bankAccountUuid |-> JsString("bankAccountUuid")])>>),
   employeeCompensations |->
     JsArray(<<JsObject([employeeUuid |-> JsString("employeeUuid"),
                         excluded |-> JsBool(FALSE),
                         fixedCompensations |->
                           JsArray(<<JsObject([name |-> JsString("name"),
                                               amount |-> JsString("amount"),
                                               jobUuid |-> JsString("jobUuid")])>>)]),
               JsObject([employeeUuid |-> JsString("employeeUuid")])>>),
   twoJobs |-> JsBool(TRUE),
   selfOnboarding |-> JsBool(TRUE),
   twoPercentShareholder |-> JsBool(FALSE),
   primarySignatory |-> JsObject([firstName |-> JsString("firstName")]),
   primaryPayrollAdmin |-> JsObject([firstName |-> JsString("firstName")]),
   locations |-> JsArray(<<>>)]

DomainValue(k) == IF k \in DOMAIN NestedDomain THEN NestedDomain[k] ELSE JsString(k)

\* Domain objects with any MaxPresent of the fields set, or all of them.
DataInputs(op) ==
  {JsObject([k \in K |-> DomainValue(k)]) :
     K \in SmallSubsets(InputTypes[op], MaxPresent) \cup {InputTypes[op]}}

MapArgs ==
  UNION {{[fn |-> "fromWire", mapper |-> m, wire |-> w] : w \in WireInputs(Mappers[m])} :
           m \in DOMAIN Mappers}
  \cup UNION {{[fn |-> "toWire", op |-> o, data |-> d] : d \in DataInputs(o)} :
                o \in DOMAIN Mutations}

InitMap ==
  /\ InitReqs /\ thrown = None /\ rendered = None
  /\ args \in MapArgs
  /\ result = None

\* A map helper maps a decoded response body.
CallFromWire ==
  /\ args.fn = "fromWire"
  /\ Apply("fromWire", [out |-> FromWire(args.mapper, args.wire)])

\* A mutating method serialises its body.
CallToWire ==
  /\ args.fn = "toWire"
  /\ Apply("toWire", [out |-> ToWire(args.op, args.data)])

\* Upstream answers the mutating request with the fields it was sent, and the
\* method maps the answer.
MapEcho ==
  /\ result # None
  /\ args.fn = "toWire"
  /\ ~result.out.threw
  /\ "mapped" \notin DOMAIN result
  /\ result' = [out |-> result.out,
                mapped |-> FromWire(Mutations[args.op].mapper, result.out.value)]
  /\ UNCHANGED <<reqs, calls, thrown, rendered, args>>

NextMap == CallFromWire \/ CallToWire \/ MapEcho

SpecMap == InitMap /\ [][NextMap]_vars

\* The naming rule between the wire and the domain: the camelCase name of
\* every snake_case wire name that occurs (a name without an underscore is
\* spelled the same on both sides).
CamelCase ==
  [anchor_pay_date |-> "anchorPayDate", anchor_end_of_pay_period |->
   "anchorEndOfPayPeriod", day_1 |-> "day1", day_2 |-> "day2", auto_pilot |->
   "autoPilot", account_number |-> "accountNumber", account_type |-> "accountType",
   adjust_for_minimum_wage |-> "adjustForMinimumWage", annual_maximum |->
   "annualMaximum", bank_account_uuid |-> "bankAccountUuid", benefit_type |->
   "benefitType", business_name |-> "businessName", check_date |-> "checkDate",
   child_support_debit |-> "childSupportDebit", company_contribution |->
   "companyContribution", company_debit |-> "companyDebit", company_status |->
   "companyStatus", company_uuid |-> "companyUuid", compensation_multiplier |->
   "compensationMultiplier", contractor_uuid |-> "contractorUuid",
   court_ordered |-> "courtOrdered", current_compensation_uuid |->
   "currentCompensationUuid", current_employment_status |->
   "currentEmploymentStatus", custom_fields |-> "customFields", date_of_birth
   |-> "dateOfBirth", deduct_as_percentage |-> "deductAsPercentage",
   deferred_payroll |-> "deferredPayroll", dependents_amount |->
   "dependentsAmount", effective_date |-> "effectiveDate", employee_benefits
   |-> "employeeBenefits", employee_compensations |-> "employeeCompensations",
   employee_deduction |-> "employeeDeduction", employee_taxes |->
   "employeeTaxes", employee_uuid |-> "employeeUuid", employer_benefits |->
   "employerBenefits", employer_taxes |-> "employerTaxes", entity_type |->
   "entityType", extra_withholding |-> "extraWithholding", filing_address |->
   "filingAddress", filing_status |-> "filingStatus", first_name |->
   "firstName", fixed_compensations |-> "fixedCompensations", flsa_status |->
   "flsaStatus", gross_pay |-> "grossPay", has_direct_deposit |->
   "hasDirectDeposit", hidden_account_number |-> "hiddenAccountNumber",
   hire_date |-> "hireDate", home_address |-> "homeAddress",
   hourly_compensations |-> "hourlyCompensations", hourly_rate |->
   "hourlyRate", is_active |-> "isActive", is_partner_managed |->
   "isPartnerManaged", job_uuid |-> "jobUuid", last_name |-> "lastName",
   location_uuid |-> "locationUuid", mailing_address |-> "mailingAddress",
   middle_initial |-> "middleInitial", middle_name |-> "middleName",
   minimum_wages |-> "minimumWages", net_pay |-> "netPay", other_income |->
   "otherIncome", paid_time_off |-> "paidTimeOff", pay_period_end_date |->
   "payPeriodEndDate", pay_period_maximum |-> "payPeriodMaximum",
   pay_period_start_date |-> "payPeriodStartDate", pay_schedule_type |->
   "payScheduleType", pay_schedule_uuid |-> "payScheduleUuid", payment_method
   |-> "paymentMethod", payment_unit |-> "paymentUnit", payroll_deadline |->
   "payrollDeadline", payroll_uuid |-> "payrollUuid", phone_number |->
   "phoneNumber", preferred_first_name |-> "preferredFirstName",
   primary_payroll_admin |-> "primaryPayrollAdmin", primary_signatory |->
   "primarySignatory", processed_date |-> "processedDate", routing_number |->
   "routingNumber", self_onboarding |-> "selfOnboarding", split_amount |->
   "splitAmount", split_by |-> "splitBy", start_date |-> "startDate", street_1
   |-> "street1", street_2 |-> "street2", termination_date |->
   "terminationDate", trade_name |-> "tradeName", two_jobs |-> "twoJobs",
   two_percent_shareholder |-> "twoPercentShareholder", verification_status |->
   "verificationStatus", w4_data_type |-> "w4DataType", wage_type |->
   "wageType", work_email |-> "workEmail"]

\* The wire name of a domain field under the naming rule.
WireNameOf(k) ==
  IF \E w \in DOMAIN CamelCase : CamelCase[w] = k
  THEN CHOOSE w \in DOMAIN CamelCase : CamelCase[w] = k
  ELSE k

IsSnakeCase(k) == k \in DOMAIN CamelCase

Serialised == result # None /\ args.fn = "toWire" /\ ~result.out.threw

RECURSIVE NoNull(_)
NoNull(x) ==
  CASE x.t = "null" -> FALSE
    [] x.t = "object" -> \A k \in DOMAIN x.v : NoNull(x.v[k])
    [] x.t = "array" -> \A i \in 1..Len(x.v) : NoNull(x.v[i])
    [] OTHER -> TRUE

\* The body b holds exactly the properties of the literal whose source is set
\* in d, each with the value set, at every depth.
RECURSIVE BodyMatches(_, _, _)
BodyMatches(fields, d, b) ==
  /\ b.t = "object"
  /\ DOMAIN b.v \subseteq Targets(fields)
  /\ \A i \in 1..Len(fields) :
       LET e == fields[i]
           v == Get(d, e[2])
       IN IF v = JsUndefined THEN e[1] \notin DOMAIN b.v
          ELSE /\ e[1] \in DOMAIN b.v
               /\ e[3] = "copy" => b.v[e[1]] = v
               /\ e[3] \in {"map", "mapAlways"}
                    => /\ b.v[e[1]].t = "array"
                       /\ Len(b.v[e[1]].v) = Len(v.v)
                       /\ \A j \in 1..Len(v.v) : BodyMatches(e[4], v.v[j], b.v[e[1]].v[j])

Mapped == result # None /\ args.fn = "fromWire"

\* The domain object d has every field of the literal, and a field whose wire
\* field is missing from w (or, for a nested object or array, null) is
\* undefined in d; the same holds inside every nested object and array element
\* that is mapped.
RECURSIVE MissingAreUndefined(_, _, _)
MissingAreUndefined(fields, w, d) ==
  /\ d.t = "object"
  /\ DOMAIN d.v = Targets(fields)
  /\ \A i \in 1..Len(fields) :
       LET e == fields[i]
           y == Get(w, e[2])
           x == d.v[e[1]]
       IN /\ y = JsUndefined => x = JsUndefined
          /\ e[3] # "copy" /\ y = JsNull => x = JsUndefined
          /\ e[3] = "guard" /\ y.t = "object" => MissingAreUndefined(e[4], y, x)
          /\ e[3] = "map" /\ y.t = "array"
               => /\ x.t = "array"
                  /\ Len(x.v) = Len(y.v)
                  /\ \A j \in 1..Len(y.v) : MissingAreUndefined(e[4], y.v[j], x.v[j])

\* C17: a map helper applied to a wire object holding any subset of the fields
\* it reads, nested objects and arrays absent or null included, does not throw
\* and returns a domain object in which every missing field is undefined.
C17_MappersTolerant ==
  Mapped
  => /\ ~result.out.threw
     /\ MissingAreUndefined(Mappers[args.mapper], args.wire, result.out.value)

C17_Witness ==
  /\ Mapped
  /\ args.mapper = "mapEmployee"
  /\ args.wire = JsObject([home_address |-> JsNull, jobs |-> JsNull])
  /\ ~result.out.threw
  /\ result.out.value.v.homeAddress = JsUndefined
  /\ result.out.value.v.jobs = JsUndefined
  /\ result.out.value.v.firstName = JsUndefined

\* No object inside x, x included, has a property with a snake_case name.
RECURSIVE NoSnakeCase(_)
NoSnakeCase(x) ==
  CASE x.t = "object" -> \A k \in DOMAIN x.v : ~IsSnakeCase(k) /\ NoSnakeCase(x.v[k])
    [] x.t = "array" -> \A i \in 1..Len(x.v) : NoSnakeCase(x.v[i])
    [] OTHER -> TRUE

\* C18 as claimed: the nested structures of a mapped domain object (addresses,
\* a payroll's fixed and hourly compensations, a compensation's minimum
\* wages, payment-method splits, tax fields) have camelCase field names only,
\* none is the raw wire object.
C18_NestedCamelCase ==
  Mapped /\ ~result.out.threw
  => \A k \in DOMAIN result.out.value.v : NoSnakeCase(result.out.value.v[k])

C18_Witness ==
  /\ Mapped
  /\ args.mapper = "mapCompensation"
  /\ args.wire = JsObject([minimum_wages |-> NestedWire.minimum_wages])
  /\ ~result.out.threw
  /\ result.out.value.v.minimumWages = NestedWire.minimum_wages
  /\ "effective_date" \in DOMAIN result.out.value.v.minimumWages.v[1].v

Echoed == result # None /\ "mapped" \in DOMAIN result

\* C19 as claimed: mapping the body a create or update operation serialises
\* from a domain object D back through the entity's map helper gives an
\* object equal to D on every field of D the operation serialises.
C19_RoundTrip ==
  Echoed
  => /\ ~result.mapped.threw
     /\ \A k \in DOMAIN args.data.v \cap Sources(Mutations[args.op].body) :
          /\ k \in DOMAIN result.mapped.value.v
          /\ result.mapped.value.v[k] = args.data.v[k]

C19_Witness ==
  /\ Echoed
  /\ args.op = "createEmployee"
  /\ args.data = JsObject([selfOnboarding |-> JsBool(TRUE)])
  /\ result.out.value = JsObject([self_onboarding |-> JsBool(TRUE)])
  /\ ~result.mapped.threw
  /\ "selfOnboarding" \notin DOMAIN result.mapped.value.v

\* The <<domain name, wire name>> pairs of a literal, nested literals included.
RECURSIVE Namings(_)
Namings(fields) ==
  UNION {{<<fields[i][1], fields[i][2]>>}
           \cup (IF fields[i][3] = "copy" THEN {} ELSE Namings(fields[i][4])) :
         i \in 1..Len(fields)}

\* The domain names the map helpers give to the wire field w.
DomainNamesOf(w) ==
  {n[1] : n \in {p \in UNION {Namings(Mappers[m]) : m \in DOMAIN Mappers} : p[2] = w}}

\* C20 as claimed: every wire field a map helper reads gets the same domain
\* name in every map helper, and no field of the domain object returned has
\* a snake_case name.
C20_DeterministicNaming ==
  Mapped /\ ~result.out.threw
  => /\ \A w \in DOMAIN args.wire.v \cap Sources(Mappers[args.mapper]) :
          Cardinality(DomainNamesOf(w)) = 1
     /\ \A k \in DOMAIN result.out.value.v : ~IsSnakeCase(k)

C20_Witness ==
  /\ Mapped
  /\ args.mapper = "employeeBankAccount"
  /\ args.wire = JsObject([hidden_account_number |-> JsString("hidden_account_number")])
  /\ ~result.out.threw
  /\ result.out.value.v.hidden_account_number = JsString("hidden_account_number")
  /\ result.out.value.v.accountNumber = JsUndefined
  /\ FromWire("companyBankAccount", args.wire).value.v.accountNumber
       = JsString("hidden_account_number")

\* ======================================================================
\* Markdown formatting (utils/formatters.ts)
\* A string is the sequence of its non-empty pieces; '' is <<>>.  An item of
\* a collection is the sequence of its own properties, <<key, value>>, in
\* insertion order (the order Object.keys lists them in).

\* String(x)
StringOfJs(x) ==
  CASE x.t = "undefined" -> <<"undefined">>
    [] x.t = "null" -> <<"null">>
    [] x.t = "string" -> IF x.v = "" THEN <<>> ELSE <<x.v>>
    [] x.t = "boolean" -> IF x.v THEN <<"true">> ELSE <<"false">>
    [] x.t = "number" -> IF x.v = NaN THEN <<"NaN">> ELSE <<ToString(x.v)>>
    [] x.t = "array" -> <<"<array>">>
    [] OTHER -> <<"[object Object]">>

\* parts.join(sep)
RECURSIVE Join(_, _)
Join(parts, sep) ==
  IF parts = <<>> THEN <<>>
  ELSE IF Len(parts) = 1 THEN parts[1]
  ELSE parts[1] \o sep \o Join(Tail(parts), sep)

JoinLines(lines) == Join(lines, <<"\n">>)

\* item[k]
Prop(item, k) ==
  IF \E i \in 1..Len(item) : item[i][1] = k
  THEN item[CHOOSE i \in 1..Len(item) : item[i][1] = k][2]
  ELSE JsUndefined

\* `${x || d}`
OrText(x, d) == IF JsTruthy(x) THEN StringOfJs(x) ELSE d

YesNo(x) == IF JsTruthy(x) THEN <<"Yes">> ELSE <<"No">>

\* `${a || ''} ${b || ''}`.trim() || '-'
FullName(a, b) ==
  LET f == OrText(a, <<>>)
      l == OrText(b, <<>>)
  IN IF f # <<>> /\ l # <<>> THEN f \o <<" ">> \o l
     ELSE IF f \o l # <<>> THEN f \o l
     ELSE <<"-">>

\* str.charAt(0).toUpperCase() + str.slice(1), on the entity types passed.
Capitalize(str) ==
  CASE str = "employees" -> "Employees"
    [] str = "contractors" -> "Contractors"
    [] str = "payrolls" -> "Payrolls"
    [] str = "companies" -> "Companies"
    [] str = "paySchedules" -> "PaySchedules"
    [] str = "locations" -> "Locations"
    [] str = "jobs" -> "Jobs"
    [] str = "compensations" -> "Compensations"
    [] str = "garnishments" -> "Garnishments"
    [] str = "bankAccounts" -> "BankAccounts"

FormatEmployeesTable(employees) ==
  JoinLines(
    << <<"| UUID | Name | Email | Status | Onboarded |">>, <<"|---|---|---|---|---|">> >>
    \o [i \in 1..Len(employees) |->
          LET emp == employees[i]
              name == FullName(Prop(emp, "firstName"), Prop(emp, "lastName"))
              status == IF JsTruthy(Prop(emp, "terminated")) THEN <<"Terminated">>
                        ELSE OrText(Prop(emp, "currentEmploymentStatus"), <<"Active">>)
          IN <<"| ">> \o StringOfJs(Prop(emp, "uuid")) \o <<" | ">> \o name \o <<" | ">>
             \o OrText(Prop(emp, "email"), <<"-">>) \o <<" | ">> \o status \o <<" | ">>
             \o YesNo(Prop(emp, "onboarded")) \o <<" |">>])

FormatContractorsTable(contractors) ==
  JoinLines(
    << <<"| UUID | Name/Business | Type | Email | Active |">>, <<"|---|---|---|---|---|">> >>
    \o [i \in 1..Len(contractors) |->
          LET c == contractors[i]
              name == IF Prop(c, "type") = JsString("Business")
                      THEN OrText(Prop(c, "businessName"), <<"-">>)
                      ELSE FullName(Prop(c, "firstName"), Prop(c, "lastName"))
          IN <<"| ">> \o StringOfJs(Prop(c, "uuid")) \o <<" | ">> \o name \o <<" | ">>
             \o OrText(Prop(c, "type"), <<"-">>) \o <<" | ">>
             \o OrText(Prop(c, "email"), <<"-">>) \o <<" | ">>
             \o YesNo(Prop(c, "isActive")) \o <<" |">>])

FormatPayrollsTable(payrolls) ==
  JoinLines(
    << <<"| UUID | Pay Period | Check Date | Processed | Gross Pay |">>,
       <<"|---|---|---|---|---|">> >>
    \o [i \in 1..Len(payrolls) |->
          LET p == payrolls[i]
              payPeriod ==
                IF JsTruthy(Prop(p, "payPeriodStartDate")) /\ JsTruthy(Prop(p, "payPeriodEndDate"))
                THEN StringOfJs(Prop(p, "payPeriodStartDate")) \o <<" - ">>
                       \o StringOfJs(Prop(p, "payPeriodEndDate"))
                ELSE <<"-">>
              gross == Get(Prop(p, "totals"), "grossPay")
              grossPay == IF JsTruthy(gross) THEN <<"$">> \o StringOfJs(gross) ELSE <<"-">>
              id == IF JsTruthy(Prop(p, "uuid")) THEN StringOfJs(Prop(p, "uuid"))
                    ELSE OrText(Prop(p, "payrollUuid"), <<"-">>)
          IN <<"| ">> \o id \o <<" | ">> \o payPeriod \o <<" | ">>
             \o OrText(Prop(p, "checkDate"), <<"-">>) \o <<" | ">>
             \o YesNo(Prop(p, "processed")) \o <<" | ">> \o grossPay \o <<" |">>])

\* record[k] ?? '-'
OrDash(x) == IF x.t \in {"undefined", "null"} THEN <<"-">> ELSE StringOfJs(x)

FormatGenericTable(items) ==
  IF Len(items) = 0 THEN <<"_No items_">>
  ELSE LET first == items[1]
           n == IF Len(first) < 5 THEN Len(first) ELSE 5
           keys == [i \in 1..n |-> first[i][1]]
       IN JoinLines(
            << <<"| ">> \o Join([i \in 1..n |-> <<keys[i]>>], <<" | ">>) \o <<" |">>,
               <<"|">> \o Join([i \in 1..n |-> <<"---">>], <<"|">>) \o <<"|">> >>
            \o [j \in 1..Len(items) |->
                  <<"| ">> \o Join([i \in 1..n |-> OrDash(Prop(items[j], keys[i]))], <<" | ">>)
                  \o <<" |">>])

\* The grave accent that opens and closes inline code.
Backtick == "<grave accent>"

FormatPaySchedulesAsMarkdown(schedules) ==
  LET Block(schedule) ==
        << <<"### ">> \o OrText(Prop(schedule, "name"), <<"Pay Schedule">>),
           <<"**UUID:** ", Backtick>> \o StringOfJs(Prop(schedule, "uuid")) \o <<Backtick>>,
           <<"**Frequency:** ">> \o OrText(Prop(schedule, "frequency"), <<"-">>),
           <<"**AutoPilot:** ">> \o YesNo(Prop(schedule, "autoPilot")) >>
        \o (IF JsTruthy(Prop(schedule, "anchorPayDate"))
            THEN << <<"**Anchor Pay Date:** ">> \o StringOfJs(Prop(schedule, "anchorPayDate")) >>
            ELSE <<>>)
        \o << <<>> >>
      Blocks[i \in 0..Len(schedules)] ==
        IF i = 0 THEN <<>> ELSE Blocks[i - 1] \o Block(schedules[i])
  IN JoinLines(Blocks[Len(schedules)])

FormatCompaniesAsMarkdown(companies) ==
  JoinLines(
    << <<"| UUID | Name | EIN | Status |">>, <<"|---|---|---|---|">> >>
    \o [i \in 1..Len(companies) |->
          LET c == companies[i] IN
          <<"| ">> \o StringOfJs(Prop(c, "uuid")) \o <<" | ">> \o StringOfJs(Prop(c, "name"))
          \o <<" | ">> \o OrText(Prop(c, "ein"), <<"-">>) \o <<" | ">>
          \o OrText(Prop(c, "companyStatus"), <<"-">>) \o <<" |">>])

FormatArrayAsMarkdown(data, entityType) ==
  IF entityType = "paySchedules" THEN FormatPaySchedulesAsMarkdown(data)
  ELSE IF entityType = "companies" THEN FormatCompaniesAsMarkdown(data)
  ELSE FormatGenericTable(data)

FormatPaginatedWithoutNotice(data, entityType) ==
  JoinLines(<< <<"## ", Capitalize(entityType)>>, <<>>,
               <<"**Showing:** ">> \o StringOfJs(data.count), <<>>,
               CASE entityType = "employees" -> FormatEmployeesTable(data.items)
                 [] entityType = "contractors" -> FormatContractorsTable(data.items)
                 [] entityType = "payrolls" -> FormatPayrollsTable(data.items)
                 [] OTHER -> FormatGenericTable(data.items) >>)

\* data: a PaginatedResponse as a record of its fields.
FormatPaginatedAsMarkdown(data, entityType) ==
  LET head ==
        << <<"## ", Capitalize(entityType)>>, <<>>,
           IF data.total # JsUndefined
           THEN <<"**Total:** ">> \o StringOfJs(data.total) \o <<" | **Showing:** ">>
                  \o StringOfJs(data.count)
           ELSE <<"**Showing:** ">> \o StringOfJs(data.count) >>
        \o (IF JsTruthy(data.hasMore)
            THEN << <<"**More available:** Yes (page: ">> \o StringOfJs(data.nextPage)
                      \o <<")">> >>
            ELSE <<>>)
        \o << <<>> >>
  IN IF Len(data.items) = 0 THEN JoinLines(head \o << <<"_No items found._">> >>)
     ELSE JoinLines(head \o
            << CASE entityType = "employees" -> FormatEmployeesTable(data.items)
                 [] entityType = "contractors" -> FormatContractorsTable(data.items)
                 [] entityType = "payrolls" -> FormatPayrollsTable(data.items)
                 [] OTHER -> FormatGenericTable(data.items) >>)

\* A PaginatedResponse is the record of its fields; an array is the record
\* whose only field, array, is the sequence of its elements.
IsArray(data) == DOMAIN data = {"array"}

\* 'items' in data && Array.isArray(data.items)
IsPaginatedResponse(data) == "items" \in DOMAIN data

\* formatAsMarkdown on a collection.
FormatAsMarkdown(data, entityType) ==
  IF IsPaginatedResponse(data) THEN FormatPaginatedAsMarkdown(data, entityType)
  ELSE FormatArrayAsMarkdown(data.array, entityType)

\* ---------------------------------------- SpecMd: formatResponse in
\* markdown mode applied to a collection.
MaxRows == 2

\* The map helper whose objects are the items of each entity type.
ItemTables ==
  [employees |-> mapEmployee, contractors |-> mapContractor, payrolls |-> mapPayroll,
   companies |-> mapCompany, paySchedules |-> mapPaySchedule, locations |-> mapLocation,
   jobs |-> mapJob, compensations |-> mapCompensation, garnishments |-> mapGarnishment,
   bankAccounts |-> companyBankAccount]

EntityTypes == DOMAIN ItemTables

\* The object a map helper returns for a wire object with every field, with
\* the properties outside present left undefined.
ItemOf(fields, present) ==
  LET full == ObjectLiteral(fields, FullInput(fields)).value.v IN
  [i \in 1..Len(fields) |->
     <<fields[i][1], IF fields[i][1] \in present THEN full[fields[i][1]] ELSE JsUndefined>>]

ItemWith(item, k, v) ==
  [i \in 1..Len(item) |-> IF item[i][1] = k THEN <<k, v>> ELSE item[i]]

Items(entityType) ==
  LET fields == ItemTables[entityType] IN
  {ItemOf(fields, Targets(fields)), ItemOf(fields, {}), ItemOf(fields, {fields[1][1]}), <<>>}
  \cup (IF entityType = "contractors"
        THEN {ItemWith(ItemOf(fields, Targets(fields)), "type", JsString("Business"))}
        ELSE {})

Collections(entityType) == UNION {[1..n -> Items(entityType)] : n \in 0..MaxRows}

Paginated(items, total, hasMore) ==
  [items |-> items, count |-> JsNumber(Len(items)), total |-> total,
   hasMore |-> JsBool(hasMore),
   nextPage |-> IF hasMore THEN JsNumber(2) ELSE JsUndefined]

MdArgs ==
  UNION {{[fn |-> "formatResponse", entityType |-> e, data |-> d] :
            d \in {[array |-> c] : c \in Collections(e)}
                  \cup {Paginated(c, JsUndefined, h) : c \in Collections(e), h \in BOOLEAN}
                  \cup {Paginated(c, JsNumber(Len(c)), FALSE) : c \in Collections(e)}} :
           e \in EntityTypes}

InitMd ==
  /\ InitReqs /\ thrown = None /\ rendered = None
  /\ args \in MdArgs
  /\ result = None

\* formatResponse(data, 'markdown', entityType): the text of its content.
CallFormatResponse ==
  Apply("formatResponse", [text |-> FormatAsMarkdown(args.data, args.entityType)])

NextMd == CallFormatResponse

SpecMd == InitMd /\ [][NextMd]_vars

Formatted == result # None /\ args.fn = "formatResponse"

ItemsOfData(data) == IF IsPaginatedResponse(data) THEN data.items ELSE data.array

\* The pieces a table's separator line is made of.
SeparatorPieces == {"---", "|---|---|---|---|---|", "|---|---|---|---|"}

HasTable(text) == \E i \in 1..Len(text) : text[i] \in SeparatorPieces

NoItemsNotices == {"_No items found._", "_No items_"}

HasNotice(text) == \E i \in 1..Len(text) : text[i] \in NoItemsNotices

\* C21: an empty paginated collection is rendered, for every entity type, with
\* the notice '_No items found._' as its last line and without any table
\* header or separator.
C21_EmptyPaginatedNotice ==
  (Formatted /\ IsPaginatedResponse(args.data) /\ Len(args.data.items) = 0)
  => /\ result.text[Len(result.text)] = "_No items found._"
     /\ result.text[Len(result.text) - 1] = "\n"
     /\ ~HasTable(result.text)
     /\ \A i \in 1..Len(result.text) : result.text[i] \notin
          {"| UUID | Name | Email | Status | Onboarded |",
           "| UUID | Name/Business | Type | Email | Active |",
           "| UUID | Pay Period | Check Date | Processed | Gross Pay |",
           "| UUID | Name | EIN | Status |", "| "}

C21_Witness ==
  /\ Formatted
  /\ args.entityType = "employees"
  /\ args.data = Paginated(<<>>, JsUndefined, FALSE)
  /\ result.text = <<"## ", "Employees", "\n", "\n", "**Showing:** ", "0", "\n", "\n",
                     "_No items found._">>

HasPiece(text, p) == \E i \in 1..Len(text) : text[i] = p

\* The line (or line start) only the dedicated layout of an entity type has.
DedicatedMark ==
  [employees |-> "| UUID | Name | Email | Status | Onboarded |",
   contractors |-> "| UUID | Name/Business | Type | Email | Active |",
   payrolls |-> "| UUID | Pay Period | Check Date | Processed | Gross Pay |",
   companies |-> "| UUID | Name | EIN | Status |",
   paySchedules |-> "### "]

\* The first five own keys of the first item.
GenericColumns(items) ==
  {items[1][i][1] : i \in 1..(IF Len(items[1]) < 5 THEN Len(items[1]) ELSE 5)}

IsGenericTable(text, items) ==
  /\ GenericColumns(items) # {} => HasPiece(text, "---")
  /\ \A e \in DOMAIN DedicatedMark : ~HasPiece(text, DedicatedMark[e])
  /\ \A k \in GenericColumns(items) : HasPiece(text, k)
  /\ (\E j \in 1..Len(items), k \in GenericColumns(items) :
        Prop(items[j], k).t \in {"undefined", "null"}) => HasPiece(text, "-")

\* C22 as claimed: a non-empty collection of employees, contractors, payrolls,
\* companies or pay schedules is rendered with the dedicated layout of its
\* entity type, whether it arrives as a paginated response or as a bare
\* array; a collection of any other entity type is rendered as the generic
\* table of the first item's first five keys, with '-' for missing values.
C22_DedicatedLayouts ==
  (Formatted /\ Len(ItemsOfData(args.data)) > 0)
  => IF args.entityType \in DOMAIN DedicatedMark
     THEN HasPiece(result.text, DedicatedMark[args.entityType])
     ELSE IsGenericTable(result.text, ItemsOfData(args.data))

C22_Witness ==
  /\ Formatted
  /\ args.entityType = "contractors"
  /\ args.data = [array |-> <<ItemOf(mapContractor, Targets(mapContractor))>>]
  /\ ~HasPiece(result.text, DedicatedMark.contractors)
  /\ IsGenericTable(result.text, args.data.array)
  /\ SubSeq(result.text, 1, 11)
       = <<"| ", "uuid", " | ", "companyUuid", " | ", "type", " | ", "wageType", " | ",
           "firstName", " |">>

\* C29 as claimed: an empty bare array is rendered, for every entity type
\* (companies and paySchedules included), as a 'no items' notice: never as
\* empty text and never as a table of header and separator only.
C29_EmptyArrayNotice ==
  (Formatted /\ IsArray(args.data) /\ Len(args.data.array) = 0)
  => /\ result.text # <<>>
     /\ HasNotice(result.text)
     /\ ~HasTable(result.text)

C29_Witness ==
  /\ Formatted
  /\ args.entityType = "paySchedules"
  /\ args.data = [array |-> <<>>]
  /\ result.text = <<>>
  /\ FormatAsMarkdown([array |-> <<>>], "companies")
       = <<"| UUID | Name | EIN | Status |", "\n", "|---|---|---|---|">>
  /\ FormatAsMarkdown([array |-> <<>>], "contractors") = <<"_No items_">>

\* C23: no client operation issues a second upstream request, whatever the
\* response (429 and 5xx included): a request that ran a tool to its end has
\* issued exactly one upstream call, gusto_test_connection as well (its
\* token-info GET), and the settling of a call issues no further call.
C23_NeverRetries ==
  \A r \in Reqs :
    /\ Len(calls[r]) <= 1
    /\ reqs[r].pc = "awaiting" => Len(calls[r]) = 1
    /\ Answered(r)
         => /\ Len(calls[r]) = 1
            /\ calls[r][1].method = RowOf(r).method
            /\ reqs[r].tool.name = "gusto_test_connection" => calls[r][1].method = "GET"

C23_Witness ==
  \E r \in Reqs :
    /\ Answered(r)
    /\ reqs[r].tool.name = "gusto_test_connection"
    /\ reqs[r].resp.status = 429
    /\ Len(calls[r]) = 1
    /\ calls[r][1].method = "GET"
    /\ ~reqs[r].handlerOut.value.content.connected

\* The update operations on entities that carry a version token (HomeAddress,
\* FederalTaxDetails, Payroll).
VersionedUpdates == {"updateHomeAddress", "updateFederalTaxes", "updatePayroll"}

\* C24 as claimed: an update operation writes the caller's version token into
\* its request body unchanged, and writes no version when the caller gave
\* none.
C24_VersionPassThrough ==
  (Serialised /\ args.op \in VersionedUpdates)
  => LET v == Get(args.data, "version")
         body == result.out.value.v
     IN IF v = JsUndefined THEN "version" \notin DOMAIN body
        ELSE "version" \in DOMAIN body /\ body.version = v

C24_Witness ==
  /\ Serialised
  /\ args.op = "updateHomeAddress"
  /\ args.data = JsObject([version |-> JsString("version"), city |-> JsString("city")])
  /\ result.out.value = JsObject([city |-> JsString("city")])
  /\ ToWire("updateFederalTaxes", JsObject([version |-> JsString("version")])).value
       = JsObject([version |-> JsString("version")])

\* The outcome of request() for a response that arrived, by the claim's
\* five classes.
Classified(out, kind) == out.threw /\ IsCrmApiError(out.error) /\ out.error.kind = kind

\* C25 as claimed: every status gives exactly one outcome, 429 a RateLimit,
\* 401 and 403 an Authentication error, any other non-2xx an ApiError, 204
\* the no-content sentinel and any other 2xx the decoded body.
C25_StatusClassification ==
  \A r \in Reqs :
    (Answered(r) /\ reqs[r].resp.arrived)
    => LET resp == reqs[r].resp
           out == reqs[r].reqOut
       IN CASE resp.status = 429 -> Classified(out, "RateLimit")
            [] resp.status \in {401, 403} -> Classified(out, "Authentication")
            [] resp.status \notin {429, 401, 403} /\ ~ResponseOk(resp) ->
                 Classified(out, "ApiError") /\ out.error.statusCode = resp.status
            [] resp.status = 204 -> out = Return(UndefinedData)
            [] OTHER -> out = Return(resp.body)

\* C25, amended: every status gives exactly one class of outcome, in the
\* precedence 429, 401/403, other non-2xx, 204, other 2xx; a 429, 401 or 403
\* is never an ApiError; a 2xx other than 204 gives the decoded body when the
\* body is JSON and the decoder's SyntaxError when it is not, and no 2xx
\* gives a RateLimit, Authentication or ApiError.
C25_StatusPrecedence ==
  \A r \in Reqs :
    (Answered(r) /\ reqs[r].resp.arrived)
    => LET resp == reqs[r].resp
           out == reqs[r].reqOut
       IN /\ CASE resp.status = 429 -> Classified(out, "RateLimit")
               [] resp.status \in {401, 403} -> Classified(out, "Authentication")
               [] resp.status \notin {429, 401, 403} /\ ~ResponseOk(resp) ->
                    Classified(out, "ApiError") /\ out.error.statusCode = resp.status
               [] resp.status = 204 -> out = Return(UndefinedData)
               [] OTHER ->
                    IF resp.body.shape = "malformed"
                    THEN out.threw /\ out.error.class = "SyntaxError"
                    ELSE out = Return(resp.body)
          /\ ResponseOk(resp) => ~(out.threw /\ IsCrmApiError(out.error))
          /\ resp.status \in {429, 401, 403} => out.error.kind # "ApiError"

C25_Witness ==
  \E r \in Reqs :
    /\ Answered(r)
    /\ reqs[r].resp.status = 201
    /\ reqs[r].resp.body.shape = "malformed"
    /\ reqs[r].reqOut.threw
    /\ reqs[r].reqOut.error.class = "SyntaxError"
    /\ reqs[r].reqOut.error.kind = "Unknown"

IsTestConnection(r) == reqs[r].tool.name = "gusto_test_connection"

\* C26: testConnection never throws.  It returns connected = true exactly
\* when getTokenInfo returns, and otherwise connected = false with the
\* message of the failure, so gusto_test_connection gives a result that is
\* not error-flagged whatever upstream answers (401, 403, 429, 404, 500, a
\* failed fetch, an undecodable or missing body).
C26_TestConnectionNeverThrows ==
  \A r \in Reqs :
    (Handled(r) /\ IsTestConnection(r))
    => LET out == reqs[r].reqOut
           res == reqs[r].opOut
           info == GetTokenInfo(out)
       IN /\ ~res.threw
          /\ res.value.connected <=> ~info.threw
          /\ res.value.connected
               <=> (~out.threw /\ out.value.shape \notin {"undefined", "null"})
          /\ ~res.value.connected => res.value.message = info.error.message
          /\ out.threw => res.value.message = out.error.message
          /\ ~reqs[r].handlerOut.threw
          /\ reqs[r].handlerOut.value.isError = "unset"
          /\ reqs[r].handlerOut.value.content = res.value

C26_Witness ==
  \E r \in Reqs :
    /\ Answered(r) /\ IsTestConnection(r)
    /\ reqs[r].resp.status = 500
    /\ reqs[r].resp.body.message = "from message"
    /\ reqs[r].opOut = Return([t |-> "object", connected |-> FALSE,
                               message |-> <<"from message">>])
    /\ reqs[r].handlerOut.value.isError = "unset"

\* The response fetch returns by itself for a request that is not a POST to
\* /mcp: it depends on the path only.
FixedResponse(path) ==
  IF path = "/health" THEN HttpResponse(200, "ok")
  ELSE IF path = "/sse" THEN HttpResponse(501, "SSE")
  ELSE HttpResponse(200, "info")

\* C27: a server and client exist, and an upstream call is issued, only for a
\* POST to /mcp with a non-empty access token; /health, /sse (501 for every
\* method), a non-POST request to /mcp and every other path are answered at
\* once with a response that depends on the path alone, whatever the
\* credential headers hold, and issue no upstream call.
C27_OnlyMcpPostBuildsClient ==
  \A r \in Reqs :
    reqs[r].pc # "idle"
    => LET q == reqs[r]
           isMcpPost == q.path = "/mcp" /\ q.method = "POST"
       IN /\ (q.server # None \/ calls[r] # <<>> \/ q.tool # None)
               => isMcpPost /\ Truthy(q.tokenHdr)
          /\ ~isMcpPost
               => /\ q.pc = "responded"
                  /\ q.http = FixedResponse(q.path)
                  /\ q.server = None
                  /\ calls[r] = <<>>
          /\ q.path = "/sse" => q.http.status = 501

C27_Witness ==
  \E r \in Reqs :
    /\ reqs[r].pc = "responded"
    /\ reqs[r].path = "/sse" /\ reqs[r].method = "POST" /\ reqs[r].tokenHdr = "tokA"
    /\ reqs[r].http = HttpResponse(501, "SSE")
    /\ reqs[r].server = None
    /\ calls[r] = <<>>

\* C28 as claimed: whatever the tool, an upstream 204 gives a tool result
\* that is not error-flagged; a client method that maps the response body
\* does not throw on the absent body.
C28_NoContentNonError ==
  \A r \in Reqs :
    (Answered(r) /\ reqs[r].resp.arrived /\ reqs[r].resp.status = 204)
    => /\ ~reqs[r].opOut.threw
       /\ reqs[r].handlerOut.value.isError = "unset"

C28_Witness ==
  \E r \in Reqs :
    /\ Answered(r)
    /\ reqs[r].tool.name = "gusto_calculate_payroll"
    /\ reqs[r].resp.status = 204
    /\ reqs[r].reqOut = Return(UndefinedData)
    /\ reqs[r].opOut.threw
    /\ reqs[r].opOut.error.class = "TypeError"
    /\ reqs[r].handlerOut.value.isError = "true"
    /\ FromWire("mapPayroll", JsUndefined).threw

\* The number a query parameter carries, or the value upstream is assumed to
\* apply when the parameter is not sent.
SentNumber(query, k, assumed) ==
  IF k \in DOMAIN query
  THEN CHOOSE n \in 1..PAGINATION_DEFAULTS.maxPer : ToString(n) = query[k]
  ELSE assumed

\* C30: in listEmployees the page size compared with the number of returned
\* items to compute hasMore is the one sent to upstream in the per query
\* parameter, and the page nextPage is computed from is the one sent in page;
\* when the caller omits per or page no parameter is sent and 25 and 1 are
\* used; this for every per and page the gusto_list_employees schema admits.
C30_ComparedIsSent ==
  Returned("listEmployees")
  => LET q == result.query
         r == result.out.value.v
         per == SentNumber(q, "per", 25)
         page == SentNumber(q, "page", 1)
         full == Len(r.items.v) = per
     IN /\ ("per" \in DOMAIN q) = (Get(args.params, "per") # JsUndefined)
        /\ ("page" \in DOMAIN q) = (Get(args.params, "page") # JsUndefined)
        /\ r.hasMore = JsBool(full)
        /\ r.nextPage = IF full THEN JsNumber(page + 1) ELSE JsUndefined

C30_Witness ==
  /\ Returned("listEmployees")
  /\ Get(args.params, "per") = JsNumber(2)
  /\ Get(args.params, "page") = JsNumber(3)
  /\ result.query.per = "2"
  /\ result.query.page = "3"
  /\ Len(args.data.v) = 2
  /\ result.out.value.v.hasMore = JsBool(TRUE)
  /\ result.out.value.v.nextPage = JsNumber(4)
====
